---- MODULE Spec2Model ----
(***************************************************************************)
(* Change-proposal pipeline of the AI agent backend (src/backend):         *)
(* the path guard, the file reader, the proposed-change store and the      *)
(* request handlers that propose, accept, reject and directly modify       *)
(* files of the target project.  Every request runs on its own thread of   *)
(* the web server; each database call and each filesystem call is one      *)
(* atomic step, so requests interleave between those calls.                *)
(***************************************************************************)
EXTENDS Integers, Sequences, FiniteSets, TLC

(***************************************************************************)
(* Bounds of the model.                                                    *)
(***************************************************************************)
\* number of server threads that can handle requests at the same time
NumThreads == 2
\* total number of requests the server receives in one behaviour
MaxRequests == 2
\* number of tickets that exist in the database
NumTickets == 2

Threads == 1..NumThreads
Tickets == 1..NumTickets

(***************************************************************************)
(* Configuration (src/backend/config.py).                                  *)
(***************************************************************************)
MAX_FILE_SIZE == 102400

ALLOWED_EXTENSIONS ==
    {".md", ".txt", ".json", ".yaml", ".yml", ".py", ".config", ".html",
     ".css", ".js", ".jsx", ".ts", ".tsx"}

\* An absolute path is the sequence of its components below "/".
TARGET_PROJECT_DIR == <<"srv", "target">>

(***************************************************************************)
(* The filesystem the backend runs on.  The directories and the symbolic   *)
(* link are fixed; the regular files and their contents are the state fs.  *)
(***************************************************************************)
OtherDir == <<"srv", "other">>

SrcDir == TARGET_PROJECT_DIR \o <<"src">>
DepsDir == TARGET_PROJECT_DIR \o <<"node_modules">>
HiddenDir == TARGET_PROJECT_DIR \o <<".cfg">>

Dirs == {<<>>, <<"srv">>, TARGET_PROJECT_DIR, OtherDir, SrcDir, DepsDir, HiddenDir}

\* /srv/target/lnk is a symbolic link to the directory /srv/other
LinkPath == TARGET_PROJECT_DIR \o <<"lnk">>

FileA == TARGET_PROJECT_DIR \o <<"a.md">>
FileMax == TARGET_PROJECT_DIR \o <<"m.md">>
FileBin == TARGET_PROJECT_DIR \o <<"n.bin">>
FileSecret == OtherDir \o <<"s.md">>

FileNested == SrcDir \o <<"b.py">>
FileDep == DepsDir \o <<"x.js">>
FileHidden == HiddenDir \o <<"h.json">>
FileNotes == TARGET_PROJECT_DIR \o <<"venv_notes.md">>

\* the files requests name, and the files that only a listing reaches
NamedFiles == {FileA, FileMax, FileBin, FileSecret}
FilePaths == NamedFiles \cup {FileNested, FileDep, FileHidden, FileNotes}

NoFile == "#absent"
NoPath == <<"#unresolvable">>

\* File contents are texts drawn from a small set; SizeOf is the number of
\* bytes of the text ("max" fills the size ceiling exactly, "big" exceeds it
\* by one byte, "" is the empty file).
Contents == {"", "old", "new", "max", "big", "secret"}

SizeOf(text) ==
    CASE text = "" -> 0
      [] text = "max" -> MAX_FILE_SIZE
      [] text = "big" -> MAX_FILE_SIZE + 1
      [] text = "secret" -> 6
      [] OTHER -> 3

\* what the generation service may answer when asked for file content
GenOutputs == {"new", "big"}

\* PurePath.suffix of a path component
SuffixOf(seg) ==
    CASE seg \in {"a.md", "m.md", "s.md", "gone.md", "venv_notes.md"} -> ".md"
      [] seg = "n.bin" -> ".bin"
      [] seg = "b.py" -> ".py"
      [] seg = "x.js" -> ".js"
      [] seg = "h.json" -> ".json"
      [] OTHER -> ""

Suffix(abs) == IF abs = <<>> THEN "" ELSE SuffixOf(abs[Len(abs)])

IsPrefix(p, q) == Len(p) <= Len(q) /\ SubSeq(q, 1, Len(p)) = p

Parent(p) == IF p = <<>> THEN <<>> ELSE SubSeq(p, 1, Len(p) - 1)

Follow(p) == IF p = LinkPath THEN OtherDir ELSE p

\* The operating system's resolution of a path: ".." goes to the parent of
\* the directory reached so far, a symbolic link is followed, and a component
\* below something that is no directory cannot be resolved.
RECURSIVE Walk(_, _)
Walk(cur, rest) ==
    IF rest = <<>> THEN cur
    ELSE IF cur \notin Dirs THEN NoPath
    ELSE Walk(IF Head(rest) = ".." THEN Parent(cur)
                                   ELSE Follow(Append(cur, Head(rest))),
              Tail(rest))

Resolve(abs) == Walk(<<>>, abs)

\* TARGET_PROJECT_DIR / file_path: joining an absolute path (first component
\* "/") replaces the left operand.
JoinTarget(file_path) ==
    IF file_path # <<>> /\ Head(file_path) = "/" THEN Tail(file_path)
    ELSE TARGET_PROJECT_DIR \o file_path

VARIABLES
    fs,                   \* FilePaths -> content of the file, or NoFile
    proposed_changes,     \* table proposed_changes, row id = index
    tickets,              \* table tickets
    changes,              \* table changes (the change history)
    conversation_history, \* UIAgent.conversation_history: the roles of its messages
    clock,                \* datetime.now()
    writes,               \* history: the file writes the backend has made
    nreq,                 \* requests received so far
    serial,               \* TRUE: the server handles one request at a time
    pc,                   \* per thread: the next step of its request
    loc,                  \* per thread: the local variables of its request
    res                   \* per thread: the response of its last request

vars == <<fs, proposed_changes, tickets, changes, conversation_history,
          clock, writes, nreq, serial, pc, loc, res>>

PathExists(abs) ==
    LET r == Resolve(abs)
    IN  r \in Dirs \/ (r \in FilePaths /\ fs[r] # NoFile)

StatSize(abs) ==
    LET r == Resolve(abs)
    IN  IF r \in Dirs THEN 4096 ELSE SizeOf(fs[r])

\* abs_path.relative_to(TARGET_PROJECT_DIR) succeeds: a comparison of path
\* components, with ".." and symbolic links left as they are
RelativeToTarget(abs) == IsPrefix(TARGET_PROJECT_DIR, abs)

ExtensionAllowed(abs) == Suffix(abs) \in ALLOWED_EXTENSIONS

\* the size check with the comparison off by one (a file of exactly the
\* ceiling size refused)
SizeAllowedBroken(abs) == StatSize(abs) < MAX_FILE_SIZE

\* abs_path.stat().st_size > MAX_FILE_SIZE is false
SizeAllowed(abs) == StatSize(abs) <= MAX_FILE_SIZE

validate_target_path(abs) ==
    /\ RelativeToTarget(abs)
    /\ PathExists(abs)
    /\ ExtensionAllowed(abs)
    /\ SizeAllowed(abs)


\* a ticket without a suggestion (NULL), and a generation call that raises
NoText == <<"#null">>
Raised == <<"#raise">>

(***************************************************************************)
(* Requests.  loc[t] holds the local variables of the handler running on   *)
(* thread t, res[t] the JSON body of the last response of thread t.        *)
(***************************************************************************)
IdleLoc ==
    [op |-> "none", file_path |-> <<>>, ticket_id |-> 0, change_id |-> 0,
     content |-> NoFile, text |-> NoFile, queue |-> <<>>, applied |-> <<>>,
     relevant_files |-> <<>>, analyzed |-> <<>>, ai_response |-> NoText,
     created |-> <<>>]

NoRes ==
    [status |-> "none", error |-> <<>>, change_id |-> 0, file_path |-> <<>>,
     content |-> NoFile, applied_changes |-> <<>>,
     suggestion |-> NoText, files_analyzed |-> <<>>, proposed_changes |-> <<>>,
     response |-> "null", files |-> {}]

Err(msg) == [NoRes EXCEPT !.status = "error", !.error = msg]

\* the paths requests name: a file of the target project and a path that
\* leaves the target directory through ".."
ReqPaths == {<<"a.md">>, <<"..", "other", "s.md">>}

\* the paths the path guard and the file reader are tried on: files of the
\* target project (valid, of exactly the size ceiling, with another
\* extension, missing), the target directory itself, paths that leave it
\* through "..", through the symbolic link and as an absolute path, and a
\* path that leaves it and comes back
PathInputs ==
    {<<"a.md">>, <<"m.md">>, <<"n.bin">>, <<"gone.md">>, <<>>,
     <<"..", "other", "s.md">>, <<"lnk", "s.md">>,
     <<"/", "srv", "other", "s.md">>, <<"..", "target", "a.md">>}

\* A request is taken by the first idle thread (threads are interchangeable).
CanBegin(t) ==
    /\ pc[t] = "idle"
    /\ \A u \in Threads : u < t => pc[u] # "idle"
    /\ nreq < MaxRequests
    /\ serial => \A u \in Threads : pc[u] = "idle"

\* res keeps a response until the next request arrives
Arriving(t) == pc[t] = "idle"

\* the handler on thread t returns response r
Respond(t, r) ==
    /\ pc' = [pc EXCEPT ![t] = "idle"]
    /\ loc' = [loc EXCEPT ![t] = IdleLoc]
    /\ res' = IF Arriving(t) THEN [u \in Threads |-> IF u = t THEN r ELSE NoRes]
              ELSE [res EXCEPT ![t] = r]

\* the handler on thread t goes on at step p with locals l
Goto(t, p, l) ==
    /\ pc' = [pc EXCEPT ![t] = p]
    /\ loc' = [loc EXCEPT ![t] = l]
    /\ res' = IF Arriving(t) THEN [u \in Threads |-> NoRes] ELSE res

(***************************************************************************)
(* UIAgent.read_file                                                       *)
(***************************************************************************)
\* the dict read_file returns for file_path
read_file(file_path) ==
    LET target_file == JoinTarget(file_path)
    IN  IF ~validate_target_path(target_file)
        THEN Err(<<"File access denied - safety check failed">>)
        ELSE IF ~PathExists(target_file)
        THEN Err(<<"File not found">>)
        ELSE IF Resolve(target_file) \notin FilePaths
        THEN Err(<<"IsADirectoryError">>)
        ELSE [NoRes EXCEPT !.status = "read", !.file_path = file_path,
                           !.content = fs[Resolve(target_file)]]

\* POST /api/file/read
ReadFile(t, file_path) ==
    /\ CanBegin(t)
    /\ nreq' = nreq + 1
    /\ Respond(t, read_file(file_path))
    /\ UNCHANGED <<fs, proposed_changes, tickets, changes,
                   conversation_history, clock, writes, serial>>

(***************************************************************************)
(* UIAgent.list_files and UIAgent.get_all_files_recursive                  *)
(***************************************************************************)
\* item.relative_to(TARGET_PROJECT_DIR) of a path below the directory
RelativePath(abs) == SubSeq(abs, Len(TARGET_PROJECT_DIR) + 1, Len(abs))

\* Path.iterdir(): the regular files in the directory dir leads to, each
\* named by dir with the name of the file appended
IterDir(dir) ==
    {Append(dir, f[Len(f)]) :
        f \in {g \in FilePaths : Parent(g) = Resolve(dir) /\ fs[g] # NoFile}}

\* Path.rglob("*"): the regular files at any depth below the directory dir
\* leads to, named by dir with their path below the directory appended
RGlob(dir) ==
    {dir \o SubSeq(f, Len(Resolve(dir)) + 1, Len(f)) :
        f \in {g \in FilePaths : /\ Resolve(dir) \in Dirs
                                 /\ IsPrefix(Resolve(dir), g)
                                 /\ fs[g] # NoFile}}

\* part.startswith('.')
StartsWithDot(seg) == seg \in {"..", ".cfg"}

\* skip in rel_path, for the skips 'node_modules', '__pycache__', 'venv' and
\* '.git': a component of the path holds one of them as a substring
HoldsSkip(seg) == seg \in {"node_modules", "venv_notes.md"}

\* the dict list_files returns for directory
list_files(directory) ==
    LET target_dir == JoinTarget(directory)
        items == {i \in IterDir(target_dir) : ExtensionAllowed(i)}
    IN  IF Resolve(target_dir) \notin Dirs
        THEN Err(<<"Directory not found">>)
        ELSE IF \E i \in items : ~RelativeToTarget(i)
        THEN Err(<<"ValueError">>)
        ELSE [NoRes EXCEPT !.status = "listed",
                           !.files = {RelativePath(i) : i \in items}]

\* the paths of the list get_all_files_recursive returns for directory
get_all_files_recursive(directory) ==
    LET target_dir == JoinTarget(directory)
        items == {i \in RGlob(target_dir) : ExtensionAllowed(i)}
    IN  IF ~PathExists(target_dir) \/ \E i \in items : ~RelativeToTarget(i)
        THEN {}
        ELSE {RelativePath(i) :
                 i \in {h \in items :
                           /\ \A n \in DOMAIN RelativePath(h) :
                                 ~StartsWithDot(RelativePath(h)[n])
                           /\ \A n \in DOMAIN RelativePath(h) :
                                 ~HoldsSkip(RelativePath(h)[n])}}

\* the directories a listing request may name
DirInputs ==
    {<<>>, <<"src">>, <<"..", "other">>, <<"lnk">>, <<"/", "srv", "other">>,
     <<"a.md">>, <<"nodir">>}

\* GET /api/files
ListFiles(t, directory) ==
    /\ CanBegin(t)
    /\ nreq' = nreq + 1
    /\ Respond(t, list_files(directory))
    /\ UNCHANGED <<fs, proposed_changes, tickets, changes,
                   conversation_history, clock, writes, serial>>

(***************************************************************************)
(* Path.write_text: the file is opened for writing, which truncates it,    *)
(* and then written.  The call can fail before the file is opened          *)
(* ("open_error": the file is as before) or after ("io_error": the file    *)
(* is left truncated).                                                     *)
(***************************************************************************)
WriteOutcomes == {"ok", "open_error", "io_error"}

WriteText(abs, text, outcome) ==
    LET r == Resolve(abs)
    IN  IF outcome = "open_error" \/ r \notin FilePaths THEN fs
        ELSE [fs EXCEPT ![r] = IF outcome = "ok" THEN text ELSE ""]

\* a write whose failure goes unnoticed
WriteRaisesNever(abs, outcome) == FALSE

\* write_text raises
WriteRaises(abs, outcome) == outcome # "ok" \/ Resolve(abs) \notin FilePaths

\* the history of writes: one entry for every call that opened the file
\* (ok: the text was written in full); nth numbers the entries of one change
\* (of the direct writes, for change 0)
WriteLog(by, change_id, abs, outcome) ==
    IF outcome = "open_error" \/ Resolve(abs) \notin FilePaths THEN writes
    ELSE writes \cup
         {[by |-> by, change_id |-> change_id, ok |-> (outcome = "ok"),
           nth |-> 1 + Cardinality({w \in writes : w.by = by /\ w.change_id = change_id})]}

(***************************************************************************)
(* database.py: the proposed_changes, tickets and changes tables           *)
(***************************************************************************)
\* a row inserted as already accepted
NewRowBroken(ticket_id, file_path, original_content, proposed_content) ==
    [ticket_id |-> ticket_id, file_path |-> file_path,
     original_content |-> original_content,
     proposed_content |-> proposed_content,
     status |-> "accepted", resolved_at |-> 0]

\* the row INSERT INTO proposed_changes creates: status defaults to
\* 'pending', resolved_at to NULL (0)
NewRow(ticket_id, file_path, original_content, proposed_content) ==
    [ticket_id |-> ticket_id, file_path |-> file_path,
     original_content |-> original_content,
     proposed_content |-> proposed_content,
     status |-> "pending", resolved_at |-> 0]

\* a variant that inserts no second pending row for a file path
create_proposed_change_once(ticket_id, file_path, original_content, proposed_content) ==
    IF \E c \in DOMAIN proposed_changes :
          /\ proposed_changes[c].file_path = file_path
          /\ proposed_changes[c].status = "pending"
    THEN proposed_changes
    ELSE Append(proposed_changes,
                NewRow(ticket_id, file_path, original_content, proposed_content))

\* INSERT INTO proposed_changes (...) VALUES (...)
create_proposed_change(ticket_id, file_path, original_content, proposed_content) ==
    Append(proposed_changes,
           NewRow(ticket_id, file_path, original_content, proposed_content))

\* UPDATE proposed_changes SET status = ?, resolved_at = ? WHERE id = ?
update_proposed_change_status(change_id, status) ==
    IF change_id \in DOMAIN proposed_changes
    THEN [proposed_changes EXCEPT ![change_id].status = status,
                                  ![change_id].resolved_at = clock]
    ELSE proposed_changes

\* SELECT * FROM proposed_changes WHERE ticket_id = ? ORDER BY created_at DESC
\* as the list of row ids, newest first
RECURSIVE RowsOfTicket(_, _)
RowsOfTicket(ticket_id, n) ==
    IF n = 0 THEN <<>>
    ELSE IF proposed_changes[n].ticket_id = ticket_id
         THEN <<n>> \o RowsOfTicket(ticket_id, n - 1)
         ELSE RowsOfTicket(ticket_id, n - 1)

\* a variant that returns the rows of every ticket
get_proposed_changes_of_all(ticket_id) ==
    [i \in 1..Len(proposed_changes) |-> Len(proposed_changes) + 1 - i]

\* SELECT * FROM proposed_changes WHERE ticket_id = ? ORDER BY created_at DESC
get_proposed_changes_for_ticket(ticket_id) ==
    RowsOfTicket(ticket_id, Len(proposed_changes))

\* UPDATE tickets SET status = ? WHERE id = ?
update_ticket_status(ticket_id, status) ==
    [tickets EXCEPT ![ticket_id].status = status]

\* a variant that resolves the ticket whatever the new status is
update_ticket_ai_status_resolves(ticket_id, status) ==
    [tickets EXCEPT ![ticket_id].ai_suggestion_status = status,
                    ![ticket_id].status = "resolved"]

\* UPDATE tickets SET ai_suggestion_status = ? [, status = 'resolved']
update_ticket_ai_status(ticket_id, status) ==
    IF status = "accepted"
    THEN [tickets EXCEPT ![ticket_id].ai_suggestion_status = status,
                         ![ticket_id].status = "resolved"]
    ELSE [tickets EXCEPT ![ticket_id].ai_suggestion_status = status]

\* a variant that leaves a ticket alone whose suggestion was accepted or
\* rejected
update_ticket_ai_suggestion_once(ticket_id, suggestion, files_analyzed) ==
    IF tickets[ticket_id].ai_suggestion_status \in {"accepted", "rejected"}
    THEN tickets
    ELSE [tickets EXCEPT ![ticket_id].ai_suggestion = suggestion,
                         ![ticket_id].ai_files_analyzed = files_analyzed,
                         ![ticket_id].ai_suggestion_status = "pending"]

\* UPDATE tickets SET ai_suggestion = ?, ai_files_analyzed = ?,
\* ai_suggestion_status = 'pending'
update_ticket_ai_suggestion(ticket_id, suggestion, files_analyzed) ==
    [tickets EXCEPT ![ticket_id].ai_suggestion = suggestion,
                    ![ticket_id].ai_files_analyzed = files_analyzed,
                    ![ticket_id].ai_suggestion_status = "pending"]

\* a ticket nobody has asked the agent about: the ai_ columns are NULL
NewTicket ==
    [status |-> "open", ai_suggestion |-> NoText,
     ai_suggestion_status |-> "null", ai_files_analyzed |-> <<>>]

\* a variant that keeps one record per ticket: an older record of the
\* ticket is replaced
record_change_per_ticket(files_affected, change_type, ticket_id) ==
    Append(SelectSeq(changes, LAMBDA c : c.ticket_id # ticket_id),
           [files_affected |-> files_affected,
            change_type |-> change_type, ticket_id |-> ticket_id])

\* INSERT INTO changes
record_change(files_affected, change_type, ticket_id) ==
    Append(changes, [files_affected |-> files_affected,
                     change_type |-> change_type, ticket_id |-> ticket_id])

\* The files of the directories when the server starts.
InitialFiles ==
    [f \in FilePaths |->
        CASE f = FileMax -> "max" [] f = FileSecret -> "secret" [] OTHER -> "old"]

\* The database and the target project outlive the server process.  The
\* server starts with an empty proposed_changes table, or with one pending
\* change that an earlier run proposed for a.md; in the second case the file
\* is as it was when the change was proposed, or has been removed since.
InitState ==
    /\ \/ /\ proposed_changes = <<>>
          /\ fs = InitialFiles
       \/ /\ proposed_changes = <<NewRow(1, <<"a.md">>, "old", "new")>>
          /\ fs \in {InitialFiles, [InitialFiles EXCEPT ![FileA] = NoFile]}
    /\ tickets = [k \in Tickets |-> NewTicket]
    /\ changes = <<>>
    /\ conversation_history = <<>>
    /\ clock = 1
    /\ writes = {}
    /\ nreq = 0
    /\ pc = [t \in Threads |-> "idle"]
    /\ loc = [t \in Threads |-> IdleLoc]
    /\ res = [t \in Threads |-> NoRes]

\* app.run() of Flask serves every request on a thread of its own
Init == serial = FALSE /\ InitState

\* the same server with requests handled one after the other
InitSeq == serial = TRUE /\ InitState

(***************************************************************************)
(* The generation service: a call either raises or returns a text.         *)
(***************************************************************************)
GenResults == GenOutputs \cup {"#raise"}

(***************************************************************************)
(* UIAgent.propose_file_change, called by POST /tickets/<id>/propose-change *)
(***************************************************************************)
\* a variant that asks for the new content whatever read_file returned
ProposeBeginUnchecked(t, ticket_id, file_path) ==
    /\ CanBegin(t)
    /\ nreq' = nreq + 1
    /\ Goto(t, "p_generate",
            [IdleLoc EXCEPT !.op = "propose", !.ticket_id = ticket_id,
                            !.file_path = file_path,
                            !.content = read_file(file_path).content])
    /\ UNCHANGED <<fs, proposed_changes, tickets, changes,
                   conversation_history, clock, writes, serial>>

\* read_file(file_path), the first statement of propose_file_change
ProposeBegin(t, ticket_id, file_path) ==
    /\ CanBegin(t)
    /\ nreq' = nreq + 1
    /\ LET file_data == read_file(file_path)
       IN  IF file_data.status = "error"
           THEN Respond(t, file_data)
           ELSE Goto(t, "p_generate",
                     [IdleLoc EXCEPT !.op = "propose", !.ticket_id = ticket_id,
                                     !.file_path = file_path,
                                     !.content = file_data.content])
    /\ UNCHANGED <<fs, proposed_changes, tickets, changes,
                   conversation_history, clock, writes, serial>>

\* propose_file_change returns r to its caller: the propose route answers
\* with it, the loop of the ai-resolve route lists the change it created and
\* goes on with the next directive
ProposeReturn(t, r) ==
    IF loc[t].op = "ai_resolve"
    THEN /\ pc' = [pc EXCEPT ![t] = "ar_loop"]
         /\ loc' = [loc EXCEPT ![t] =
                       [@ EXCEPT !.queue = Tail(@),
                                 !.created = IF r.status = "proposed"
                                             THEN Append(@, r.change_id) ELSE @,
                                 !.file_path = <<>>, !.content = NoFile]]
         /\ res' = res
    ELSE Respond(t, r)

\* the generation call returns and the row is inserted, or the call raises
ProposeFinish(t) ==
    /\ pc[t] = "p_generate"
    /\ \E g \in GenResults :
          IF g = "#raise"
          THEN /\ ProposeReturn(t, Err(<<"APIError">>))
               /\ UNCHANGED proposed_changes
          ELSE /\ proposed_changes' =
                      create_proposed_change(loc[t].ticket_id, loc[t].file_path,
                                             loc[t].content, g)
               /\ ProposeReturn(t, [NoRes EXCEPT !.status = "proposed",
                                                 !.change_id = Len(proposed_changes) + 1,
                                                 !.file_path = loc[t].file_path])
    /\ UNCHANGED <<fs, tickets, changes, conversation_history, clock, writes, nreq, serial>>

(***************************************************************************)
(* UIAgent.apply_proposed_change, called by POST /proposed-changes/<id>/   *)
(* accept and, for every pending row of a ticket, by the accept action of  *)
(* POST /tickets/<id>/ai-action.                                           *)
(***************************************************************************)
\* a variant in which the ticket-level loop ends with the first change that
\* could not be applied
ApplyReturnStops(t, r) ==
    IF loc[t].op = "accept" \/ loc[t].op = "none" \/ r.status = "error"
    THEN Respond(t, r)
    ELSE /\ pc' = [pc EXCEPT ![t] = "ta_loop"]
         /\ loc' = [loc EXCEPT ![t] =
                       [@ EXCEPT !.queue = Tail(@),
                                 !.applied = Append(@, r.file_path),
                                 !.change_id = 0, !.file_path = <<>>,
                                 !.text = NoFile]]
         /\ res' = res

\* apply_proposed_change returns r to its caller
ApplyReturn(t, r) ==
    IF loc[t].op = "accept" \/ loc[t].op = "none"
    THEN Respond(t, r)
    ELSE /\ pc' = [pc EXCEPT ![t] = "ta_loop"]
         /\ loc' = [loc EXCEPT ![t] =
                       [@ EXCEPT !.queue = Tail(@),
                                 !.applied = IF r.status = "applied"
                                             THEN Append(@, r.file_path) ELSE @,
                                 !.change_id = 0, !.file_path = <<>>,
                                 !.text = NoFile]]
         /\ res' = res

\* the status check left out
IsPendingBroken(row) == TRUE

\* the check of the row's status
IsPending(row) == row.status = "pending"

\* change = db.get_proposed_change(change_id) and the checks on it
ApplyCheck(t, op, change_id) ==
    IF change_id \notin DOMAIN proposed_changes
    THEN ApplyReturn(t, Err(<<"Proposed change not found">>))
    ELSE IF ~IsPending(proposed_changes[change_id])
    THEN ApplyReturn(t, Err(<<"Change already",
                             proposed_changes[change_id].status>>))
    ELSE Goto(t, "a_validate",
              [loc[t] EXCEPT !.op = op, !.change_id = change_id,
                             !.file_path = proposed_changes[change_id].file_path,
                             !.ticket_id = proposed_changes[change_id].ticket_id,
                             !.text = proposed_changes[change_id].proposed_content])

\* POST /proposed-changes/<change_id>/accept
AcceptBegin(t, change_id) ==
    /\ CanBegin(t)
    /\ nreq' = nreq + 1
    /\ ApplyCheck(t, "accept", change_id)
    /\ UNCHANGED <<fs, proposed_changes, tickets, changes,
                   conversation_history, clock, writes, serial>>

ApplyValidate(t) ==
    /\ pc[t] = "a_validate"
    /\ IF ~validate_target_path(JoinTarget(loc[t].file_path))
       THEN ApplyReturn(t, Err(<<"Safety check failed on write">>))
       ELSE /\ pc' = [pc EXCEPT ![t] = "a_write"]
            /\ UNCHANGED <<loc, res>>
    /\ UNCHANGED <<fs, proposed_changes, tickets, changes,
                   conversation_history, clock, writes, nreq, serial>>

\* the text apply_proposed_change writes
AppliedText(t) == loc[t].text

ApplyWrite(t) ==
    /\ pc[t] = "a_write"
    /\ \E outcome \in WriteOutcomes :
          LET target_file == JoinTarget(loc[t].file_path)
          IN  /\ fs' = WriteText(target_file, AppliedText(t), outcome)
              /\ writes' = WriteLog("accept", loc[t].change_id, target_file, outcome)
              /\ IF WriteRaises(target_file, outcome)
                 THEN ApplyReturn(t, Err(<<"OSError">>))
                 ELSE /\ pc' = [pc EXCEPT ![t] = "a_update"]
                      /\ UNCHANGED <<loc, res>>
    /\ UNCHANGED <<proposed_changes, tickets, changes, conversation_history,
                   clock, nreq, serial>>

ApplyUpdate(t) ==
    /\ pc[t] = "a_update"
    /\ proposed_changes' = update_proposed_change_status(loc[t].change_id, "accepted")
    /\ clock' = clock + 1
    /\ pc' = [pc EXCEPT ![t] = "a_record"]
    /\ UNCHANGED <<fs, tickets, changes, conversation_history, writes, nreq,
                   serial, loc, res>>

\* a variant in which applying a change also resolves its ticket
ApplyRecordResolves(t) ==
    /\ pc[t] = "a_record"
    /\ changes' = record_change(<<loc[t].file_path>>, "modify", loc[t].ticket_id)
    /\ tickets' = update_ticket_ai_status(loc[t].ticket_id, "accepted")
    /\ ApplyReturn(t, [NoRes EXCEPT !.status = "applied",
                                    !.change_id = loc[t].change_id,
                                    !.file_path = loc[t].file_path])
    /\ UNCHANGED <<fs, proposed_changes, conversation_history, clock,
                   writes, nreq, serial>>

\* db.record_change(...) and the return of apply_proposed_change
ApplyRecord(t) ==
    /\ pc[t] = "a_record"
    /\ changes' = record_change(<<loc[t].file_path>>, "modify", loc[t].ticket_id)
    /\ ApplyReturn(t, [NoRes EXCEPT !.status = "applied",
                                    !.change_id = loc[t].change_id,
                                    !.file_path = loc[t].file_path])
    /\ UNCHANGED <<fs, proposed_changes, tickets, conversation_history, clock,
                   writes, nreq, serial>>

(***************************************************************************)
(* UIAgent.reject_proposed_change, called by POST /proposed-changes/<id>/  *)
(* reject and by the reject action of POST /tickets/<id>/ai-action.        *)
(***************************************************************************)
RejectReturn(t, r) ==
    IF loc[t].op = "reject" \/ loc[t].op = "none"
    THEN Respond(t, r)
    ELSE /\ pc' = [pc EXCEPT ![t] = "tr_loop"]
         /\ loc' = [loc EXCEPT ![t] =
                       [@ EXCEPT !.queue = Tail(@), !.change_id = 0]]
         /\ res' = res

RejectCheck(t, op, change_id) ==
    IF change_id \notin DOMAIN proposed_changes
    THEN RejectReturn(t, Err(<<"Proposed change not found">>))
    ELSE IF ~IsPending(proposed_changes[change_id])
    THEN RejectReturn(t, Err(<<"Change already",
                              proposed_changes[change_id].status>>))
    ELSE Goto(t, "r_update",
              [loc[t] EXCEPT !.op = op, !.change_id = change_id])

\* POST /proposed-changes/<change_id>/reject
RejectBegin(t, change_id) ==
    /\ CanBegin(t)
    /\ nreq' = nreq + 1
    /\ RejectCheck(t, "reject", change_id)
    /\ UNCHANGED <<fs, proposed_changes, tickets, changes,
                   conversation_history, clock, writes, serial>>

\* a reject that also writes the original content back to the file
RejectUpdateRestores(t) ==
    /\ pc[t] = "r_update"
    /\ proposed_changes' = update_proposed_change_status(loc[t].change_id, "rejected")
    /\ clock' = clock + 1
    /\ fs' = WriteText(JoinTarget(proposed_changes[loc[t].change_id].file_path),
                       proposed_changes[loc[t].change_id].original_content, "ok")
    /\ RejectReturn(t, [NoRes EXCEPT !.status = "rejected",
                                     !.change_id = loc[t].change_id])
    /\ UNCHANGED <<tickets, changes, conversation_history, writes, nreq, serial>>

\* db.update_proposed_change_status(change_id, 'rejected') and the return
RejectUpdate(t) ==
    /\ pc[t] = "r_update"
    /\ proposed_changes' = update_proposed_change_status(loc[t].change_id, "rejected")
    /\ clock' = clock + 1
    /\ RejectReturn(t, [NoRes EXCEPT !.status = "rejected",
                                     !.change_id = loc[t].change_id])
    /\ UNCHANGED <<fs, tickets, changes, conversation_history, writes, nreq, serial>>

(***************************************************************************)
(* POST /tickets/<id>/ai-action with action accept or reject               *)
(***************************************************************************)
RECURSIVE PendingOf(_)
PendingOf(ids) ==
    IF ids = <<>> THEN <<>>
    ELSE IF proposed_changes[Head(ids)].status = "pending"
         THEN <<Head(ids)>> \o PendingOf(Tail(ids))
         ELSE PendingOf(Tail(ids))

\* pending_changes = db.get_proposed_changes_for_ticket(ticket_id); the loop
\* calls apply_proposed_change for the rows that are pending in this list
TicketAcceptBegin(t, ticket_id) ==
    /\ CanBegin(t)
    /\ nreq' = nreq + 1
    /\ Goto(t, "ta_loop",
            [IdleLoc EXCEPT !.op = "ticket_accept", !.ticket_id = ticket_id,
                            !.queue = PendingOf(get_proposed_changes_for_ticket(ticket_id))])
    /\ UNCHANGED <<fs, proposed_changes, tickets, changes,
                   conversation_history, clock, writes, serial>>

\* a variant that accepts only a suggestion that is pending
TicketAcceptLoopGuarded(t) ==
    /\ pc[t] = "ta_loop"
    /\ IF loc[t].queue # <<>>
       THEN /\ ApplyCheck(t, "ticket_accept", Head(loc[t].queue))
            /\ UNCHANGED tickets
       ELSE IF tickets[loc[t].ticket_id].ai_suggestion_status # "pending"
       THEN /\ Respond(t, Err(<<"No pending suggestion">>))
            /\ UNCHANGED tickets
       ELSE /\ tickets' = update_ticket_ai_status(loc[t].ticket_id, "accepted")
            /\ Respond(t, [NoRes EXCEPT !.status = "success",
                                        !.applied_changes = loc[t].applied])
    /\ UNCHANGED <<fs, proposed_changes, changes, conversation_history, clock,
                   writes, nreq, serial>>

\* the next iteration of the loop, or the statements after it
TicketAcceptLoop(t) ==
    /\ pc[t] = "ta_loop"
    /\ IF loc[t].queue # <<>>
       THEN /\ ApplyCheck(t, "ticket_accept", Head(loc[t].queue))
            /\ UNCHANGED tickets
       ELSE /\ tickets' = update_ticket_ai_status(loc[t].ticket_id, "accepted")
            /\ Respond(t, [NoRes EXCEPT !.status = "success",
                                        !.applied_changes = loc[t].applied])
    /\ UNCHANGED <<fs, proposed_changes, changes, conversation_history, clock,
                   writes, nreq, serial>>

TicketRejectBegin(t, ticket_id) ==
    /\ CanBegin(t)
    /\ nreq' = nreq + 1
    /\ Goto(t, "tr_loop",
            [IdleLoc EXCEPT !.op = "ticket_reject", !.ticket_id = ticket_id,
                            !.queue = PendingOf(get_proposed_changes_for_ticket(ticket_id))])
    /\ UNCHANGED <<fs, proposed_changes, tickets, changes,
                   conversation_history, clock, writes, serial>>

TicketRejectLoop(t) ==
    /\ pc[t] = "tr_loop"
    /\ IF loc[t].queue # <<>>
       THEN /\ RejectCheck(t, "ticket_reject", Head(loc[t].queue))
            /\ UNCHANGED tickets
       ELSE /\ tickets' = update_ticket_ai_status(loc[t].ticket_id, "rejected")
            /\ Respond(t, [NoRes EXCEPT !.status = "success"])
    /\ UNCHANGED <<fs, proposed_changes, changes, conversation_history, clock,
                   writes, nreq, serial>>

(***************************************************************************)
(* UIAgent.modify_file_with_claude, called by POST /api/file/modify        *)
(***************************************************************************)
ModifyBegin(t, file_path) ==
    /\ CanBegin(t)
    /\ nreq' = nreq + 1
    /\ LET file_data == read_file(file_path)
       IN  IF file_data.status = "error"
           THEN /\ Respond(t, file_data)
                /\ UNCHANGED conversation_history
           ELSE /\ conversation_history' =
                       Append(conversation_history,
                              "user")
                /\ Goto(t, "m_generate",
                        [IdleLoc EXCEPT !.op = "modify", !.file_path = file_path])
    /\ UNCHANGED <<fs, proposed_changes, tickets, changes, clock, writes, serial>>

\* the generation call returns or raises; the answer is appended to the
\* history and the path is validated again
ModifyGenerate(t) ==
    /\ pc[t] = "m_generate"
    /\ \E g \in GenResults :
          IF g = "#raise"
          THEN /\ Respond(t, Err(<<"APIError">>))
               /\ UNCHANGED conversation_history
          ELSE /\ conversation_history' = Append(conversation_history, "assistant")
               /\ IF ~validate_target_path(JoinTarget(loc[t].file_path))
                  THEN Respond(t, Err(<<"Safety check failed on write">>))
                  ELSE Goto(t, "m_write", [loc[t] EXCEPT !.text = g])
    /\ UNCHANGED <<fs, proposed_changes, tickets, changes, clock, writes, nreq, serial>>

ModifyWrite(t) ==
    /\ pc[t] = "m_write"
    /\ \E outcome \in WriteOutcomes :
          LET target_file == JoinTarget(loc[t].file_path)
          IN  /\ fs' = WriteText(target_file, loc[t].text, outcome)
              /\ writes' = WriteLog("modify", 0, target_file, outcome)
              /\ IF WriteRaises(target_file, outcome)
                 THEN Respond(t, Err(<<"OSError">>))
                 ELSE /\ pc' = [pc EXCEPT ![t] = "m_record"]
                      /\ UNCHANGED <<loc, res>>
    /\ UNCHANGED <<proposed_changes, tickets, changes, conversation_history,
                   clock, nreq, serial>>

ModifyRecord(t) ==
    /\ pc[t] = "m_record"
    /\ changes' = record_change(<<loc[t].file_path>>, "modify", 0)
    /\ Respond(t, [NoRes EXCEPT !.status = "success",
                                !.file_path = loc[t].file_path])
    /\ UNCHANGED <<fs, proposed_changes, tickets, conversation_history, clock,
                   writes, nreq, serial>>

(***************************************************************************)
(* POST /tickets/<id>/ai-resolve: process_task_two_step analyses the files *)
(* the generation service names, the answer is stored in the ticket, and   *)
(* propose_file_change is called for an analysed file the answer lists     *)
(* under FILES_TO_MODIFY.                                                  *)
(***************************************************************************)
\* the lists of files identify_relevant_files may return (the empty list
\* also when its generation call fails)
RelevantFiles == {<<>>, << <<"a.md">> >>}

Elems(seq) == {seq[i] : i \in DOMAIN seq}

\* A text is the sequence of its pieces: the marker, a line break, a blank,
\* a colon, a dash, or a word (a run of other characters).
Marker == "FILES_TO_MODIFY:"
Whitespace == {" ", "\n"}

\* str.strip()
RECURSIVE LStrip(_)
LStrip(text) ==
    IF text # <<>> /\ Head(text) \in Whitespace THEN LStrip(Tail(text)) ELSE text

RECURSIVE RStrip(_)
RStrip(text) ==
    IF text # <<>> /\ text[Len(text)] \in Whitespace
    THEN RStrip(SubSeq(text, 1, Len(text) - 1)) ELSE text

Strip(text) == RStrip(LStrip(text))

\* the position of the first sep in text, 0 when there is none
FindFirst(text, sep) ==
    IF sep \in Elems(text)
    THEN CHOOSE i \in DOMAIN text :
             text[i] = sep /\ \A j \in 1..(i - 1) : text[j] # sep
    ELSE 0

\* str.split(sep)
RECURSIVE Split(_, _)
Split(text, sep) ==
    IF FindFirst(text, sep) = 0 THEN <<text>>
    ELSE <<SubSeq(text, 1, FindFirst(text, sep) - 1)>>
         \o Split(SubSeq(text, FindFirst(text, sep) + 1, Len(text)), sep)

\* str.split(sep, 1)
SplitOnce(text, sep) ==
    IF FindFirst(text, sep) = 0 THEN <<text>>
    ELSE <<SubSeq(text, 1, FindFirst(text, sep) - 1),
           SubSeq(text, FindFirst(text, sep) + 1, Len(text))>>

\* line.startswith('- ') and ':' in line
IsDirectiveLine(line) ==
    Len(line) >= 2 /\ line[1] = "-" /\ line[2] = " " /\ ":" \in Elems(line)

\* the (path, instruction) pairs of the lines of the block, in their order
RECURSIVE ParseLines(_)
ParseLines(lines) ==
    IF lines = <<>> THEN <<>>
    ELSE LET line == Strip(Head(lines))
             parts == SplitOnce(SubSeq(line, 3, Len(line)), ":")
         IN IF IsDirectiveLine(line)
            THEN <<[file_path |-> Strip(parts[1]),
                    instruction |-> IF Len(parts) > 1 THEN Strip(parts[2])
                                    ELSE <<"Apply", "fix">>]>>
                 \o ParseLines(Tail(lines))
            ELSE ParseLines(Tail(lines))

\* the directives of an analysis: the '- <path>: <instruction>' lines of
\* what follows FILES_TO_MODIFY:
DirectivesOf(response) ==
    IF Marker \notin Elems(response) THEN <<>>
    ELSE LET blocks == Split(response, Marker)
         IN ParseLines(Split(Strip(blocks[Len(blocks)]), "\n"))

\* lines of an analysis
LineA == <<"-", " ", "a.md", ":", " ", "fix">>
LineMax == <<"-", " ", "m.md", ":", " ", "fix">>
LineGone == <<"-", " ", "gone.md", ":", " ", "fix">>

RECURSIVE JoinLines(_)
JoinLines(lines) ==
    IF lines = <<>> THEN <<>>
    ELSE IF Len(lines) = 1 THEN Head(lines)
    ELSE Head(lines) \o <<"\n">> \o JoinLines(Tail(lines))

\* an analysis that ends with a block of the lines
Render(lines) == <<"analysis", "\n", Marker, "\n">> \o JoinLines(lines)

\* the texts the analysis may return
TextNone == <<"analysis">>
TextA == Render(<<LineA>>)
TextAMax == Render(<<LineA, LineMax>>)
TextGoneA == Render(<<LineGone, LineA>>)

Responses == {TextNone, TextA}

\* The answer of the selection call is a text as well: its pieces are the
\* brackets, the comma, quoted strings, blanks and other words.
Unquote(piece) ==
    CASE piece = "\"a.md\"" -> <<"a.md">>
      [] piece = "\"m.md\"" -> <<"m.md">>
      [] piece = "\"gone.md\"" -> <<"gone.md">>
      [] OTHER -> <<>>

\* re.search(r'\[.*?\]', result, re.DOTALL) finds a match: a '[' with a ']'
\* somewhere after it
HasArray(result) ==
    /\ FindFirst(result, "[") # 0
    /\ FindFirst(SubSeq(result, FindFirst(result, "[") + 1, Len(result)), "]") # 0

\* what the match holds between its brackets: the pieces from the first '['
\* to the first ']' after it
ArrayInner(result) ==
    LET rest == SubSeq(result, FindFirst(result, "[") + 1, Len(result))
    IN  SubSeq(rest, 1, FindFirst(rest, "]") - 1)

\* the elements of the array: the pieces between the commas
ArrayItems(inner) ==
    IF Strip(inner) = <<>> THEN <<>>
    ELSE [i \in DOMAIN Split(inner, ",") |-> Strip(Split(inner, ",")[i])]

\* json.loads of the match succeeds: every element is one quoted string
JsonParses(inner) ==
    \A i \in DOMAIN ArrayItems(inner) :
        Len(ArrayItems(inner)[i]) = 1 /\ Unquote(ArrayItems(inner)[i][1]) # <<>>

JsonLoads(inner) ==
    [i \in DOMAIN ArrayItems(inner) |-> Unquote(ArrayItems(inner)[i][1])]

\* a variant that keeps the quoted strings of an array that does not parse
identify_relevant_files_lenient(answer) ==
    IF answer = Raised \/ ~HasArray(answer) THEN <<>>
    ELSE SelectSeq([i \in DOMAIN ArrayInner(answer) |-> Unquote(ArrayInner(answer)[i])],
                   LAMBDA path : path # <<>>)

\* the list identify_relevant_files returns when the selection call answers
\* with the text answer, or raises
identify_relevant_files(answer) ==
    IF get_all_files_recursive(<<>>) = {} THEN <<>>
    ELSE IF answer = Raised THEN <<>>
    ELSE IF ~HasArray(answer) THEN <<>>
    ELSE IF ~JsonParses(ArrayInner(answer)) THEN <<>>
    ELSE JsonLoads(ArrayInner(answer))

\* answers of the selection call: arrays, texts without an array, and texts
\* whose array does not parse
AnswersArray ==
    {<<"[", "\"a.md\"", "]">>,
     <<"[", "\"a.md\"", ",", " ", "\"m.md\"", "]">>,
     <<"files", ":", "\n", "[", " ", "\"a.md\"", "]", " ", "done">>,
     <<"[", "]">>}

AnswersNoArray ==
    {<<"none">>, <<"[", "\"a.md\"">>, <<"]", "\"a.md\"", "[">>}

AnswersUnparsable ==
    {<<"[", "a.md", "]">>, <<"[", "\"a.md\"", ",", "]">>,
     <<"[", "[", "\"a.md\"", "]", "]">>}

SelectAnswers == AnswersArray \cup AnswersNoArray \cup AnswersUnparsable \cup {Raised}

\* a variant that keeps every file of the list, read or not
FileContentsKeysAll(files, keys) == keys \o files

\* the keys of file_contents: the files of the list that read_file could
\* read, each once, in the order of the list
RECURSIVE FileContentsKeys(_, _)
FileContentsKeys(files, keys) ==
    IF files = <<>> THEN keys
    ELSE FileContentsKeys(Tail(files),
             IF read_file(Head(files)).status = "error" \/ Head(files) \in Elems(keys)
             THEN keys ELSE Append(keys, Head(files)))

\* identify_relevant_files and the reading of the files it names
AiResolveBegin(t, ticket_id, relevant_files) ==
    /\ CanBegin(t)
    /\ nreq' = nreq + 1
    /\ IF relevant_files = <<>>
       THEN /\ Respond(t, Err(<<"No relevant files found for this task">>))
            /\ UNCHANGED conversation_history
       ELSE IF FileContentsKeys(relevant_files, <<>>) = <<>>
       THEN /\ Respond(t, Err(<<"Could not read any of the relevant files">>))
            /\ UNCHANGED conversation_history
       ELSE /\ conversation_history' = Append(conversation_history, "user")
            /\ Goto(t, "ar_generate",
                    [IdleLoc EXCEPT !.op = "ai_resolve", !.ticket_id = ticket_id,
                                    !.relevant_files = relevant_files,
                                    !.analyzed = FileContentsKeys(relevant_files, <<>>)])
    /\ UNCHANGED <<fs, proposed_changes, tickets, changes, clock, writes, serial>>

\* a variant of the analysis step that marks the ticket as analysed also
\* when the generation call raises
AiResolveGenerateStores(t, response) ==
    /\ pc[t] = "ar_generate"
    /\ tickets' = update_ticket_ai_suggestion(loc[t].ticket_id, response,
                                              loc[t].analyzed)
    /\ IF response = Raised
       THEN /\ Respond(t, Err(<<"APIError">>))
            /\ UNCHANGED <<conversation_history, changes>>
       ELSE /\ conversation_history' = Append(conversation_history, "assistant")
            /\ changes' = record_change(loc[t].analyzed, "analyze", 0)
            /\ Goto(t, "ar_loop", [loc[t] EXCEPT !.ai_response = response,
                                                  !.queue = DirectivesOf(response)])
    /\ UNCHANGED <<fs, proposed_changes, clock, writes, nreq, serial>>

\* the analysis returns response or raises (Raised); the response is
\* recorded, stored in the ticket and searched for directives
AiResolveGenerate(t, response) ==
    /\ pc[t] = "ar_generate"
    /\ IF response = Raised
       THEN /\ Respond(t, Err(<<"APIError">>))
            /\ UNCHANGED <<conversation_history, changes, tickets>>
       ELSE /\ conversation_history' = Append(conversation_history, "assistant")
            /\ changes' = record_change(loc[t].analyzed, "analyze", 0)
            /\ tickets' = update_ticket_ai_suggestion(loc[t].ticket_id, response,
                                                      loc[t].analyzed)
            /\ Goto(t, "ar_loop", [loc[t] EXCEPT !.ai_response = response,
                                                  !.queue = DirectivesOf(response)])
    /\ UNCHANGED <<fs, proposed_changes, clock, writes, nreq, serial>>

\* a variant of the loop that proposes a change for every directive whose
\* file can be read, analysed or not
AiResolveLoopUnfiltered(t) ==
    /\ pc[t] = "ar_loop"
    /\ IF loc[t].queue = <<>>
       THEN Respond(t, [NoRes EXCEPT !.status = "success",
                                     !.suggestion = loc[t].ai_response,
                                     !.files_analyzed = loc[t].analyzed,
                                     !.proposed_changes = loc[t].created])
       ELSE IF read_file(Head(loc[t].queue).file_path).status = "error"
       THEN Goto(t, "ar_loop", [loc[t] EXCEPT !.queue = Tail(@)])
       ELSE Goto(t, "p_generate",
                 [loc[t] EXCEPT !.file_path = Head(loc[t].queue).file_path,
                                !.content =
                                    read_file(Head(loc[t].queue).file_path).content])
    /\ UNCHANGED <<fs, proposed_changes, tickets, changes,
                   conversation_history, clock, writes, nreq, serial>>

\* the loop over the directives: propose_file_change(file_path, ...,
\* ticket_id) for a path that is in files_analyzed, which reads the file;
\* after the last directive the response
AiResolveLoop(t) ==
    /\ pc[t] = "ar_loop"
    /\ IF loc[t].queue = <<>>
       THEN Respond(t, [NoRes EXCEPT !.status = "success",
                                     !.suggestion = loc[t].ai_response,
                                     !.files_analyzed = loc[t].analyzed,
                                     !.proposed_changes = loc[t].created])
       ELSE IF Head(loc[t].queue).file_path \notin Elems(loc[t].analyzed)
               \/ read_file(Head(loc[t].queue).file_path).status = "error"
       THEN Goto(t, "ar_loop", [loc[t] EXCEPT !.queue = Tail(@)])
       ELSE Goto(t, "p_generate",
                 [loc[t] EXCEPT !.file_path = Head(loc[t].queue).file_path,
                                !.content =
                                    read_file(Head(loc[t].queue).file_path).content])
    /\ UNCHANGED <<fs, proposed_changes, tickets, changes,
                   conversation_history, clock, writes, nreq, serial>>

(***************************************************************************)
(* PUT /tickets/<id>/status                                                *)
(***************************************************************************)
\* the values a status request may carry
StatusInputs == {"closed", "done"}

TicketStatus(t, ticket_id, status) ==
    /\ CanBegin(t)
    /\ nreq' = nreq + 1
    /\ IF status \notin {"open", "in_progress", "resolved", "closed"}
       THEN /\ Respond(t, Err(<<"Invalid status">>))
            /\ UNCHANGED tickets
       ELSE /\ tickets' = update_ticket_status(ticket_id, status)
            /\ Respond(t, [NoRes EXCEPT !.status = "success"])
    /\ UNCHANGED <<fs, proposed_changes, changes, conversation_history, clock,
                   writes, serial>>

(***************************************************************************)
(* UIAgent.chat, called by the probe action of POST /tickets/<id>/ai-action *)
(* with the ticket, its stored suggestion and the follow-up question        *)
(***************************************************************************)
\* the follow-up questions a probe request may carry
Messages == {"", "question"}

\* what the generation service may do when asked to continue the
\* conversation
ChatResults == {"answer", "#raise"}

\* the checks of the route and the first statement of chat, which appends
\* the message to the history of the agent
ProbeBegin(t, ticket_id, message) ==
    /\ CanBegin(t)
    /\ nreq' = nreq + 1
    /\ IF message = ""
       THEN /\ Respond(t, Err(<<"Message required for probe action">>))
            /\ UNCHANGED conversation_history
       ELSE /\ conversation_history' = Append(conversation_history, "user")
            /\ Goto(t, "c_generate",
                    [IdleLoc EXCEPT !.op = "probe", !.ticket_id = ticket_id])
    /\ UNCHANGED <<fs, proposed_changes, tickets, changes, clock, writes, serial>>

\* the generation call is sent the history of the agent; its answer is
\* appended to the history and returned, an exception is returned as a text
ChatGenerate(t) ==
    /\ pc[t] = "c_generate"
    /\ \E g \in ChatResults :
          IF g = "#raise"
          THEN /\ Respond(t, [NoRes EXCEPT !.status = "success",
                                           !.response = "Error: APIError"])
               /\ UNCHANGED conversation_history
          ELSE /\ conversation_history' = Append(conversation_history, "assistant")
               /\ Respond(t, [NoRes EXCEPT !.status = "success", !.response = g])
    /\ UNCHANGED <<fs, proposed_changes, tickets, changes, clock, writes, nreq, serial>>

(***************************************************************************)
(* Specifications                                                          *)
(***************************************************************************)
\* the change ids requests name: the rows that exist and one that does not
ReqChangeIds == 1..(Len(proposed_changes) + 1)

Step(t) ==
    \/ \E p \in PathInputs : ReadFile(t, p)
    \/ \E k \in Tickets, p \in ReqPaths : ProposeBegin(t, k, p)
    \/ ProposeFinish(t)
    \/ \E c \in ReqChangeIds : AcceptBegin(t, c)
    \/ ApplyValidate(t)
    \/ ApplyWrite(t)
    \/ ApplyUpdate(t)
    \/ ApplyRecord(t)
    \/ \E c \in ReqChangeIds : RejectBegin(t, c)
    \/ RejectUpdate(t)
    \/ \E k \in Tickets : TicketAcceptBegin(t, k)
    \/ TicketAcceptLoop(t)
    \/ \E k \in Tickets : TicketRejectBegin(t, k)
    \/ TicketRejectLoop(t)
    \/ \E p \in ReqPaths : ModifyBegin(t, p)
    \/ ModifyGenerate(t)
    \/ ModifyWrite(t)
    \/ ModifyRecord(t)
    \/ \E k \in Tickets, f \in RelevantFiles : AiResolveBegin(t, k, f)
    \/ \E r \in Responses \cup {Raised} : AiResolveGenerate(t, r)
    \/ AiResolveLoop(t)
    \/ \E k \in Tickets, m \in Messages : ProbeBegin(t, k, m)
    \/ ChatGenerate(t)
    \/ \E k \in Tickets, s \in StatusInputs : TicketStatus(t, k, s)

\* requests are handled concurrently
Next == \E t \in Threads : Step(t)

Spec == Init /\ [][Next]_vars

\* requests are handled one after the other
SpecSeq == InitSeq /\ [][Next]_vars

\* The path guard and the file reader on their own: the files of the two
\* directories hold any of the contents (or are missing) and every request
\* is a read of one of the paths.
InitGuard ==
    /\ serial = TRUE
    /\ fs \in {[f \in FilePaths |-> IF f \in NamedFiles THEN g[f] ELSE InitialFiles[f]] :
                  g \in [NamedFiles -> Contents \cup {NoFile}]}
    /\ proposed_changes = <<>>
    /\ tickets = [k \in Tickets |-> NewTicket]
    /\ changes = <<>>
    /\ conversation_history = <<>>
    /\ clock = 1
    /\ writes = {}
    /\ nreq = 0
    /\ pc = [t \in Threads |-> "idle"]
    /\ loc = [t \in Threads |-> IdleLoc]
    /\ res = [t \in Threads |-> NoRes]

NextGuard == \E t \in Threads : \E p \in PathInputs : ReadFile(t, p)

SpecGuard == InitGuard /\ [][NextGuard]_vars

\* The ai-resolve route on its own, with selections that hold an unreadable
\* file or a file twice and with analyses that hold several directives,
\* among them ones for files that were not analysed.
ResolveFiles ==
    {<<>>, << <<"a.md">>, <<"gone.md">> >>, << <<"a.md">>, <<"m.md">> >>,
     << <<"a.md">>, <<"a.md">> >>}

ResolveResponses == {TextNone, TextAMax, TextGoneA}

StepResolve(t) ==
    \/ \E k \in Tickets, f \in ResolveFiles : AiResolveBegin(t, k, f)
    \/ \E r \in ResolveResponses \cup {Raised} : AiResolveGenerate(t, r)
    \/ AiResolveLoop(t)
    \/ ProposeFinish(t)

NextResolve == \E t \in Threads : StepResolve(t)

SpecResolve == InitSeq /\ [][NextResolve]_vars

\* The propose route on its own: a.md holds any of the contents or is
\* missing, and a request names any of the paths.
InitPropose ==
    /\ serial = TRUE
    /\ fs \in {[InitialFiles EXCEPT ![FileA] = c] : c \in Contents \cup {NoFile}}
    /\ proposed_changes = <<>>
    /\ tickets = [k \in Tickets |-> NewTicket]
    /\ changes = <<>>
    /\ conversation_history = <<>>
    /\ clock = 1
    /\ writes = {}
    /\ nreq = 0
    /\ pc = [t \in Threads |-> "idle"]
    /\ loc = [t \in Threads |-> IdleLoc]
    /\ res = [t \in Threads |-> NoRes]

StepPropose(t) ==
    \/ \E k \in Tickets, p \in PathInputs : ProposeBegin(t, k, p)
    \/ ProposeFinish(t)

NextPropose == \E t \in Threads : StepPropose(t)

SpecPropose == InitPropose /\ [][NextPropose]_vars

\* The directive parsing on its own: one ai-resolve request of a server
\* that has read files before, with a.md and m.md analysed and with an
\* analysis whose block holds up to MaxLines lines of the forms below.
MaxLines == 2

LineIndented == <<" ", "-", " ", "m.md", " ", ":", "fix", ":", "now", " ">>
LineUndo == <<"-", " ", "a.md", ":", " ", "undo">>
LineProse == <<"see", " ", "below">>
LineBlank == <<>>
LineNoBlank == <<"-", "a.md", ":", "fix">>
LineNoColon == <<"-", " ", "a.md">>
LineMarker == <<Marker>>

DirectiveLines == {LineA, LineIndented, LineUndo}
OtherLines == {LineProse, LineBlank, LineNoBlank, LineNoColon, LineMarker}

BlockLines == UNION {[1..n -> DirectiveLines \cup OtherLines] : n \in 0..MaxLines}

ParseTexts == {Render(lines) : lines \in BlockLines} \cup {TextNone, LineA}

InitParse ==
    /\ serial = TRUE
    /\ fs = InitialFiles
    /\ proposed_changes = <<>>
    /\ tickets = [k \in Tickets |-> NewTicket]
    /\ changes = <<>>
    /\ conversation_history = <<>>
    /\ clock = 1
    /\ writes = {}
    /\ nreq = MaxRequests - 1
    /\ pc = [t \in Threads |-> "idle"]
    /\ loc = [t \in Threads |-> IdleLoc]
    /\ res = [t \in Threads |-> NoRes]

StepParse(t) ==
    \/ \E k \in Tickets : AiResolveBegin(t, k, << <<"a.md">>, <<"m.md">> >>)
    \/ \E r \in ParseTexts : AiResolveGenerate(t, r)
    \/ AiResolveLoop(t)
    \/ ProposeFinish(t)

NextParse == \E t \in Threads : StepParse(t)

SpecParse == InitParse /\ [][NextParse]_vars

\* The listings on their own: any of the files may be missing and every
\* request lists one of the directories.
ListedFiles == {FileA, FileBin, FileSecret, FileNested, FileDep, FileHidden, FileNotes}

InitList ==
    /\ serial = TRUE
    /\ fs \in {[f \in FilePaths |-> IF f \in gone THEN NoFile ELSE InitialFiles[f]] :
                  gone \in SUBSET ListedFiles}
    /\ proposed_changes = <<>>
    /\ tickets = [k \in Tickets |-> NewTicket]
    /\ changes = <<>>
    /\ conversation_history = <<>>
    /\ clock = 1
    /\ writes = {}
    /\ nreq = 0
    /\ pc = [t \in Threads |-> "idle"]
    /\ loc = [t \in Threads |-> IdleLoc]
    /\ res = [t \in Threads |-> NoRes]

NextList == \E t \in Threads : \E d \in DirInputs : ListFiles(t, d)

SpecList == InitList /\ [][NextList]_vars

\* The file selection on its own: one ai-resolve request of a server that
\* has read files before, with any of the project files missing and with
\* any of the answers of the selection call.
SelectedFiles == {FileA, FileMax, FileNested, FileDep, FileHidden, FileNotes}

InitSelect ==
    /\ serial = TRUE
    /\ fs \in {[f \in FilePaths |-> IF f \in gone THEN NoFile ELSE InitialFiles[f]] :
                  gone \in SUBSET SelectedFiles}
    /\ proposed_changes = <<>>
    /\ tickets = [k \in Tickets |-> NewTicket]
    /\ changes = <<>>
    /\ conversation_history = <<>>
    /\ clock = 1
    /\ writes = {}
    /\ nreq = MaxRequests - 1
    /\ pc = [t \in Threads |-> "idle"]
    /\ loc = [t \in Threads |-> IdleLoc]
    /\ res = [t \in Threads |-> NoRes]

StepSelect(t) ==
    \/ \E k \in Tickets, a \in SelectAnswers :
          AiResolveBegin(t, k, identify_relevant_files(a))
    \/ \E r \in Responses \cup {Raised} : AiResolveGenerate(t, r)
    \/ AiResolveLoop(t)
    \/ ProposeFinish(t)

NextSelect == \E t \in Threads : StepSelect(t)

SpecSelect == InitSelect /\ [][NextSelect]_vars

\* The ticket-level accept and reject on their own: the table holds two
\* pending changes that earlier requests proposed, the first for a.md of
\* ticket 1, the second for a.md or m.md of ticket 1, of another ticket or
\* of no ticket, with any proposed contents; ticket 1 is new or as
\* update_ticket_ai_suggestion leaves it.
InitAccept ==
    /\ serial = TRUE
    /\ fs = InitialFiles
    /\ proposed_changes \in
          {<<NewRow(1, <<"a.md">>, "old", c1), NewRow(k, p, InitialFiles[JoinTarget(p)], c2)>> :
              c1 \in {"new", "", "max", "big"}, c2 \in {"new", "", "max", "big"},
              k \in {0, 1, 2}, p \in {<<"a.md">>, <<"m.md">>}}
    /\ tickets \in
          {[k \in Tickets |-> IF k = 1 THEN first ELSE NewTicket] :
              first \in {NewTicket,
                         [NewTicket EXCEPT !.ai_suggestion = TextA,
                                           !.ai_suggestion_status = "pending",
                                           !.ai_files_analyzed = << <<"a.md">> >>]}}
    /\ changes = <<>>
    /\ conversation_history = <<>>
    /\ clock = 1
    /\ writes = {}
    /\ nreq = 0
    /\ pc = [t \in Threads |-> "idle"]
    /\ loc = [t \in Threads |-> IdleLoc]
    /\ res = [t \in Threads |-> NoRes]

StepAccept(t) ==
    \/ \E k \in Tickets : TicketAcceptBegin(t, k)
    \/ TicketAcceptLoop(t)
    \/ ApplyValidate(t)
    \/ ApplyWrite(t)
    \/ ApplyUpdate(t)
    \/ ApplyRecord(t)
    \/ \E k \in Tickets : TicketRejectBegin(t, k)
    \/ TicketRejectLoop(t)
    \/ RejectUpdate(t)

NextAccept == \E t \in Threads : StepAccept(t)

SpecAccept == InitAccept /\ [][NextAccept]_vars

\* UIAgent.clear_history, called by POST /api/history/clear
ClearHistory(t) ==
    /\ CanBegin(t)
    /\ nreq' = nreq + 1
    /\ conversation_history' = <<>>
    /\ Respond(t, [NoRes EXCEPT !.status = "Conversation history cleared"])
    /\ UNCHANGED <<fs, proposed_changes, tickets, changes, clock, writes, serial>>

\* The requests that use the conversation history of the agent, handled one
\* after the other: probe (chat), file modification, ai-resolve and the
\* clearing of the history.
StepHistory(t) ==
    \/ \E k \in Tickets, m \in Messages : ProbeBegin(t, k, m)
    \/ ChatGenerate(t)
    \/ \E p \in ReqPaths : ModifyBegin(t, p)
    \/ ModifyGenerate(t)
    \/ ModifyWrite(t)
    \/ ModifyRecord(t)
    \/ \E k \in Tickets, f \in RelevantFiles : AiResolveBegin(t, k, f)
    \/ \E r \in Responses \cup {Raised} : AiResolveGenerate(t, r)
    \/ AiResolveLoop(t)
    \/ ProposeFinish(t)
    \/ ClearHistory(t)

NextHistory == \E t \in Threads : StepHistory(t)

SpecHistory == InitSeq /\ [][NextHistory]_vars

(***************************************************************************)
(* Properties                                                              *)
(***************************************************************************)
Rows == DOMAIN proposed_changes

\* the file a row's file_path names
RowFile(c) == Resolve(JoinTarget(proposed_changes[c].file_path))

\* the resolved form of the path is a strict descendant of the target directory
ResolvesInside(abs) ==
    /\ Resolve(abs) # NoPath
    /\ IsPrefix(TARGET_PROJECT_DIR, Resolve(abs))
    /\ Len(Resolve(abs)) > Len(TARGET_PROJECT_DIR)

\* thread t takes the step it is at
Leaves(t, p) == pc[t] = p /\ pc'[t] # p

\* C1: every write to a file is the write of a proposed change by that
\* change's accept; no handler writes a file in another way.
C1_EveryWriteIsAnAccept ==
    \A w \in writes : w.by = "accept" /\ w.change_id \in Rows

\* C2: the status of a proposed change changes only from pending, and only to
\* accepted or rejected; accepted and rejected are final.
C2_StatusChangesOnce ==
    [][\A c \in Rows :
          proposed_changes'[c].status # proposed_changes[c].status
          => /\ proposed_changes[c].status = "pending"
             /\ proposed_changes'[c].status \in {"accepted", "rejected"}]_vars

\* C3: the proposed content of one change is written to its file at most
\* once, also when accept calls on it run concurrently.
C3_WrittenAtMostOnce ==
    \A c \in Rows :
        Cardinality({w \in writes : w.by = "accept" /\ w.change_id = c /\ w.ok}) <= 1

\* thread t is inside apply_proposed_change and returns from it in this step
ApplyReturns(t, from) ==
    /\ pc[t] \in from
    /\ pc'[t] = (IF loc[t].op = "accept" THEN "idle" ELSE "ta_loop")

\* apply_proposed_change of thread t returns success for its change: the
\* file holds the proposed content, the row is accepted and the caller gets
\* the file path (the route in its response, the ticket loop in its list)
AcceptSucceeded(t) ==
    /\ fs'[RowFile(loc[t].change_id)] = proposed_changes[loc[t].change_id].proposed_content
    /\ proposed_changes'[loc[t].change_id].status = "accepted"
    /\ IF loc[t].op = "accept"
       THEN /\ res'[t].status = "applied"
            /\ res'[t].file_path = proposed_changes[loc[t].change_id].file_path
            /\ res'[t].change_id = loc[t].change_id
       ELSE loc'[t].applied =
                Append(loc[t].applied, proposed_changes[loc[t].change_id].file_path)

\* C4: an accept call that found the change pending and the path valid, and
\* whose write of the file went through, returns success with the file path,
\* with the file equal to the proposed content and the status accepted.
C4_AcceptApplies ==
    [][\A t \in Threads :
          ApplyReturns(t, {"a_update", "a_record"})
          => AcceptSucceeded(t)]_vars

\* C5: an accept or reject call on a change that is accepted or rejected
\* returns the error "Change already <status>", writes no file and leaves the
\* row (status and resolved_at) as it is; in a ticket-level loop the call
\* adds nothing to the list of applied changes.
C5_ResolvedIsConflict ==
    [][\A t \in Threads :
          /\ \A c \in Rows :
                /\ proposed_changes[c].status # "pending"
                /\ AcceptBegin(t, c) \/ RejectBegin(t, c)
                => /\ res'[t] = Err(<<"Change already", proposed_changes[c].status>>)
                   /\ pc'[t] = "idle"
                   /\ fs' = fs
                   /\ writes' = writes
                   /\ proposed_changes' = proposed_changes
          /\ /\ pc[t] \in {"ta_loop", "tr_loop"}
             /\ pc'[t] # pc[t] \/ loc'[t] # loc[t]
             /\ loc[t].queue # <<>>
             /\ proposed_changes[Head(loc[t].queue)].status # "pending"
             => /\ pc'[t] = pc[t]
                /\ loc'[t].applied = loc[t].applied
                /\ loc'[t].queue = Tail(loc[t].queue)
                /\ fs' = fs
                /\ writes' = writes
                /\ proposed_changes' = proposed_changes]_vars

C5_Witness ==
    \E t \in Threads : \E c \in Rows :
        /\ proposed_changes[c].status = "rejected"
        /\ proposed_changes[c].resolved_at > 0
        /\ res[t] = Err(<<"Change already", "rejected">>)

\* the file of the change thread t works on is missing or larger than the
\* size ceiling
TargetGoneOrGrown(t) ==
    \/ fs[RowFile(loc[t].change_id)] = NoFile
    \/ SizeOf(fs[RowFile(loc[t].change_id)]) > MAX_FILE_SIZE

\* C6: when the file of a pending change does not validate at accept time,
\* or the write fails, the file is left unchanged, the status stays pending
\* and an error is returned; the status is advanced only after the write has
\* succeeded.
C6_FailedAcceptChangesNothing ==
    [][\A t \in Threads :
          /\ loc[t].op = "accept"
             /\ \/ Leaves(t, "a_validate") /\ TargetGoneOrGrown(t)
                \/ Leaves(t, "a_write") /\ pc'[t] # "a_update"
             => /\ pc'[t] = "idle"
                /\ res'[t].status = "error"
                /\ proposed_changes' = proposed_changes
                /\ proposed_changes[loc[t].change_id].status = "pending"
                /\ fs' = fs
          /\ Leaves(t, "a_update")
             => \E w \in writes :
                   w.by = "accept" /\ w.change_id = loc[t].change_id /\ w.ok]_vars

\* C7: rejecting a pending change sets its status to rejected and leaves
\* every file unchanged.
C7_RejectWritesNothing ==
    [][\A t \in Threads :
          /\ pc'[t] = "r_update" /\ pc[t] # "r_update"
             => fs' = fs /\ writes' = writes
          /\ Leaves(t, "r_update")
             => /\ fs' = fs
                /\ writes' = writes
                /\ proposed_changes'[loc[t].change_id].status = "rejected"]_vars

C7_Witness ==
    \E t \in Threads :
        /\ res[t].status = "rejected"
        /\ proposed_changes[res[t].change_id].status = "rejected"
        /\ writes = {}

\* C8: a step that creates a row creates exactly one, pending and with no
\* resolved timestamp, leaves the other rows as they are and writes no file.
C8_CreateIsPendingAndWritesNothing ==
    [][Len(proposed_changes') # Len(proposed_changes)
       => /\ Len(proposed_changes') = Len(proposed_changes) + 1
          /\ proposed_changes'[Len(proposed_changes')].status = "pending"
          /\ proposed_changes'[Len(proposed_changes')].resolved_at = 0
          /\ SubSeq(proposed_changes', 1, Len(proposed_changes)) = proposed_changes
          /\ fs' = fs
          /\ writes' = writes]_vars

C8_Witness ==
    \E t \in Threads :
        /\ res[t].status = "proposed"
        /\ res[t].change_id = Len(proposed_changes)
        /\ proposed_changes[res[t].change_id].status = "pending"
        /\ proposed_changes[res[t].change_id].proposed_content = "big"
        /\ fs = InitialFiles

\* C9: the path guard rejects every path whose resolved form is outside the
\* target directory, so read, propose and accept never touch such a file.
C9_GuardRejectsOutside ==
    /\ \A p \in PathInputs :
          ~ResolvesInside(JoinTarget(p)) => ~validate_target_path(JoinTarget(p))
    /\ \A t \in Threads :
          res[t].status = "read" => ResolvesInside(JoinTarget(res[t].file_path))
    /\ fs[FileSecret] = "secret"

\* C10: for a path below the target directory whose resolved form is below
\* it too, the guard answers true exactly when the path exists, its
\* extension is allowed and its size is at most the ceiling.
C10_GuardInsideIsExistsExtSize ==
    \A p \in PathInputs :
        LET abs == JoinTarget(p)
            r == Resolve(abs)
        IN  IsPrefix(TARGET_PROJECT_DIR, abs) /\ ResolvesInside(abs)
            => (validate_target_path(abs)
                <=> /\ r \in FilePaths
                    /\ fs[r] # NoFile
                    /\ SuffixOf(p[Len(p)]) \in ALLOWED_EXTENSIONS
                    /\ SizeOf(fs[r]) < MAX_FILE_SIZE + 1)

C10_Witness ==
    /\ SizeOf(fs[FileMax]) = MAX_FILE_SIZE
    /\ validate_target_path(FileMax)
    /\ SizeOf(fs[FileA]) = MAX_FILE_SIZE + 1
    /\ ~validate_target_path(FileA)
    /\ fs[FileBin] # NoFile
    /\ ~validate_target_path(FileBin)
    /\ \E t \in Threads :
          /\ res[t].status = "read"
          /\ res[t].file_path = <<"m.md">>
          /\ SizeOf(res[t].content) = MAX_FILE_SIZE

\* C11: read_file answers "File not found" for a path below the target
\* directory that does not exist and "File access denied" for a path the
\* guard refuses for another reason (outside the directory, extension, size);
\* in both cases it returns no content and no other error.
C11_ReadDistinguishesErrors ==
    \A p \in PathInputs :
        LET abs == JoinTarget(p)
            r == read_file(p)
        IN  /\ IsPrefix(TARGET_PROJECT_DIR, abs) /\ ResolvesInside(abs)
               /\ ~PathExists(abs)
               => r = Err(<<"File not found">>)
            /\ PathExists(abs) /\ ~validate_target_path(abs)
               => r = Err(<<"File access denied - safety check failed">>)
            /\ r.status = "error" => r.content = NoFile

\* a request arrives at thread t and is handled up to step p (or answered,
\* when p is "idle")
Begins(t, p) == pc[t] = "idle" /\ nreq' # nreq /\ pc'[t] = p

\* C12: an ai-resolve call that fails because no file was selected, because
\* none of the selected files could be read or because the analysis raised
\* returns an error; none of its steps changes a field of a ticket or
\* creates a proposed change.
C12_FailedResolveLeavesTicket ==
    [][\A t \in Threads :
          /\ Begins(t, "ar_generate")
             => tickets' = tickets /\ proposed_changes' = proposed_changes
          /\ /\ Begins(t, "idle")
             /\ res'[t].error \in {<<"No relevant files found for this task">>,
                                   <<"Could not read any of the relevant files">>}
             => /\ res'[t].status = "error"
                /\ tickets' = tickets
                /\ proposed_changes' = proposed_changes
          /\ Leaves(t, "ar_generate") /\ pc'[t] = "idle"
             => /\ res'[t].status = "error"
                /\ tickets' = tickets
                /\ proposed_changes' = proposed_changes]_vars

\* the analysis of a second ai-resolve call has raised after a first call
\* stored its suggestion, which is still there
C12_Witness ==
    \E t \in Threads : \E k \in Tickets :
        /\ res[t] = Err(<<"APIError">>)
        /\ conversation_history = <<"user", "assistant", "user">>
        /\ tickets[k].ai_suggestion = TextAMax
        /\ tickets[k].ai_suggestion_status = "pending"

\* C13: a generation call that fails during a propose call or during the
\* proposal loop of ai-resolve ends the operation with an error, and the
\* operation has created no proposed change before it.
C13_GenerationFailureAborts ==
    [][\A t \in Threads :
          Leaves(t, "p_generate") /\ Len(proposed_changes') = Len(proposed_changes)
          => /\ pc'[t] = "idle"
             /\ res'[t].status = "error"
             /\ loc[t].created = <<>>]_vars

\* the number of directives of the stored suggestion of ticket k whose path
\* is among the analysed files
DirectivesAnalyzed(k, analyzed) ==
    Cardinality({i \in DOMAIN DirectivesOf(tickets[k].ai_suggestion) :
                    DirectivesOf(tickets[k].ai_suggestion)[i].file_path \in Elems(analyzed)})

\* C14: an ai-resolve call that answers with success has created one row for
\* every directive of its response whose path is in files_analyzed and none
\* for the other directives; each of its rows is pending, belongs to the
\* ticket and is for an analysed file.
C14_OneRowPerDirective ==
    [][\A t \in Threads :
          Leaves(t, "ar_loop") /\ pc'[t] = "idle"
          => /\ res'[t].status = "success"
             /\ Len(res'[t].proposed_changes)
                   = DirectivesAnalyzed(loc[t].ticket_id, res'[t].files_analyzed)
             /\ \A i \in DOMAIN res'[t].proposed_changes :
                   LET row == proposed_changes[res'[t].proposed_changes[i]]
                   IN  /\ row.status = "pending"
                       /\ row.ticket_id = loc[t].ticket_id
                       /\ row.file_path \in Elems(res'[t].files_analyzed)]_vars

\* the analysis of thread t has returned and its result is stored in this step
StoresSuggestion(t) == Leaves(t, "ar_generate") /\ pc'[t] = "ar_loop"

\* the position of the first occurrence of path p in the list files
FirstIndex(files, p) ==
    CHOOSE i \in DOMAIN files :
        files[i] = p /\ \A j \in DOMAIN files : files[j] = p => i <= j

\* C15 as stated: a successful ai-resolve stores the raw response as the
\* ticket's ai_suggestion, sets ai_suggestion_status to pending and sets
\* ai_files_analyzed to the list of paths the file selection returned.
C15_StoresSelection ==
    [][\A t \in Threads :
          StoresSuggestion(t)
          => /\ tickets'[loc[t].ticket_id].ai_suggestion = loc'[t].ai_response
             /\ tickets'[loc[t].ticket_id].ai_suggestion_status = "pending"
             /\ tickets'[loc[t].ticket_id].ai_files_analyzed
                   = loc[t].relevant_files]_vars

\* C15: a successful ai-resolve stores the raw response as the ticket's
\* ai_suggestion, sets ai_suggestion_status to pending and sets
\* ai_files_analyzed to the selected paths that could be read: each of them
\* once, in the order of their first occurrence in the selection.
C15_StoresAnalyzed ==
    [][\A t \in Threads :
          StoresSuggestion(t)
          => LET stored == tickets'[loc[t].ticket_id].ai_files_analyzed
                 selected == loc[t].relevant_files
             IN  /\ tickets'[loc[t].ticket_id].ai_suggestion = loc'[t].ai_response
                 /\ tickets'[loc[t].ticket_id].ai_suggestion_status = "pending"
                 /\ Elems(stored) = {p \in Elems(selected) :
                                        read_file(p).status # "error"}
                 /\ \A i, j \in DOMAIN stored :
                       i < j => FirstIndex(selected, stored[i])
                                   < FirstIndex(selected, stored[j])]_vars

\* a selection with a file that could not be read has been analysed and
\* stored without that file
C15_Witness ==
    \E t \in Threads :
        /\ pc[t] = "ar_loop"
        /\ loc[t].relevant_files = << <<"a.md">>, <<"gone.md">> >>
        /\ tickets[loc[t].ticket_id].ai_suggestion = TextGoneA
        /\ tickets[loc[t].ticket_id].ai_suggestion_status = "pending"
        /\ tickets[loc[t].ticket_id].ai_files_analyzed = << <<"a.md">> >>

\* the pending rows of ticket k
PendingRows(k) ==
    {c \in Rows : proposed_changes[c].ticket_id = k
                  /\ proposed_changes[c].status = "pending"}

\* thread t takes a step
Steps(t) == pc'[t] # pc[t] \/ loc'[t] # loc[t]

\* C16: ticket-level accept calls apply_proposed_change for every change of
\* the ticket that is pending when the call starts, one after the other and
\* also after a call that failed; it ends only after the last of them, with
\* success, ai_suggestion_status accepted and status resolved, whatever the
\* calls returned.
C16_TicketAcceptTriesAll ==
    [][\A t \in Threads :
          /\ Begins(t, "ta_loop")
             => Elems(loc'[t].queue) = PendingRows(loc'[t].ticket_id)
          /\ loc[t].op = "ticket_accept" /\ Steps(t)
             => IF pc'[t] = "idle"
                THEN /\ loc[t].queue = <<>>
                     /\ res'[t].status = "success"
                     /\ tickets'[loc[t].ticket_id].ai_suggestion_status = "accepted"
                     /\ tickets'[loc[t].ticket_id].status = "resolved"
                ELSE /\ loc'[t].op = "ticket_accept"
                     /\ pc[t] = "ta_loop"
                        => /\ loc[t].queue # <<>>
                           /\ \/ /\ pc'[t] = "a_validate"
                                 /\ loc'[t].change_id = Head(loc[t].queue)
                                 /\ loc'[t].queue = loc[t].queue
                              \/ /\ pc'[t] = "ta_loop"
                                 /\ loc'[t].queue = Tail(loc[t].queue)
                     /\ pc[t] # "ta_loop"
                        => /\ loc[t].change_id = Head(loc[t].queue)
                           /\ \/ loc'[t].queue = loc[t].queue
                              \/ /\ pc'[t] = "ta_loop"
                                 /\ loc'[t].queue = Tail(loc[t].queue)]_vars

\* a ticket with two pending changes has been accepted: the write of the
\* first change failed, the second change was applied after it
C16_Witness ==
    \E t \in Threads : \E k \in Tickets :
        /\ res[t].status = "success"
        /\ res[t].applied_changes = << <<"a.md">> >>
        /\ tickets[k].ai_suggestion_status = "accepted"
        /\ tickets[k].status = "resolved"
        /\ Len(proposed_changes) = 2
        /\ proposed_changes[2].status = "pending"
        /\ proposed_changes[1].status = "accepted"
        /\ \E w \in writes : w.by = "accept" /\ w.change_id = 2 /\ ~w.ok

\* the step of thread t writes the proposed content of its change in full
WritesChange(t) ==
    \E w \in writes' \ writes :
        w.by = "accept" /\ w.change_id = loc[t].change_id /\ w.ok

ProbeSteps(t) ==
    \/ Begins(t, "c_generate")
    \/ Begins(t, "idle") /\ res'[t] = Err(<<"Message required for probe action">>)
    \/ Leaves(t, "c_generate")

\* C19: a probe changes no proposed change, no field of a ticket, no target
\* file and no entry of the change history, and nothing else that a later
\* request works with: the conversation history of the agent is as before.
C19_ProbeLeavesNothing ==
    [][\A t \in Threads :
          ProbeSteps(t)
          => /\ proposed_changes' = proposed_changes
             /\ tickets' = tickets
             /\ fs' = fs
             /\ writes' = writes
             /\ changes' = changes
             /\ conversation_history' = conversation_history]_vars

\* C20: the history sent to the generation service with the message of a
\* request holds that message and nothing from another request.
C20_HistoryIsPerRequest ==
    [][/\ Len(conversation_history') = Len(conversation_history) + 1
       /\ conversation_history'[Len(conversation_history')] = "user"
       => conversation_history' = <<"user">>]_vars

\* C26: a propose call asks for new content only for a path the guard
\* accepts; for a path the guard refuses (outside the target directory,
\* extension, size, missing) it answers at once with an error that names a
\* reason, and it has created no row and changed no file or table.
C26_RefusedProposeChangesNothing ==
    [][\A t \in Threads :
          CanBegin(t) /\ nreq' # nreq
          => /\ \/ /\ pc'[t] = "p_generate"
                   /\ loc'[t].op = "propose"
                   /\ validate_target_path(JoinTarget(loc'[t].file_path))
                \/ /\ pc'[t] = "idle"
                   /\ res'[t].status = "error"
                   /\ res'[t].error # <<>>
             /\ proposed_changes' = proposed_changes
             /\ fs' = fs
             /\ writes' = writes
             /\ tickets' = tickets
             /\ changes' = changes
             /\ conversation_history' = conversation_history]_vars

\* a propose call for a.md, which is larger than the size ceiling, has been
\* refused after another propose call created a row
C26_Witness ==
    \E t \in Threads :
        /\ res[t] = Err(<<"File access denied - safety check failed">>)
        /\ SizeOf(fs[FileA]) > MAX_FILE_SIZE
        /\ Len(proposed_changes) = 1
        /\ nreq = 2
        /\ writes = {}

\* a field of some ticket that the AI workflow keeps changes in this step
AiFieldsChange ==
    \E k \in Tickets :
        \/ tickets'[k].ai_suggestion # tickets[k].ai_suggestion
        \/ tickets'[k].ai_suggestion_status # tickets[k].ai_suggestion_status
        \/ tickets'[k].ai_files_analyzed # tickets[k].ai_files_analyzed

\* C27 as stated: no step of an accept or reject call for a single proposed
\* change changes a ticket; a ticket changes only in a step of an ai-resolve
\* call or of a ticket-level accept or reject.
C27_TicketFieldsAreTicketLevel ==
    [][/\ \A t \in Threads :
             /\ Steps(t)
             /\ loc[t].op \in {"accept", "reject"} \/ loc'[t].op \in {"accept", "reject"}
             => tickets' = tickets
       /\ tickets' # tickets
          => \E t \in Threads :
                /\ Steps(t)
                /\ loc[t].op \in {"ai_resolve", "ticket_accept", "ticket_reject"}]_vars

\* C27: no step of an accept or reject call for a single proposed change
\* changes a ticket; the AI fields of a ticket change only in a step of an
\* ai-resolve call or of a ticket-level accept or reject, and its status
\* only in a step of a ticket-level accept or by a status request.
C27_AcceptRejectLeaveTicket ==
    [][/\ \A t \in Threads :
             /\ Steps(t)
             /\ loc[t].op \in {"accept", "reject"} \/ loc'[t].op \in {"accept", "reject"}
             => tickets' = tickets
       /\ AiFieldsChange
          => \E t \in Threads :
                /\ Steps(t)
                /\ loc[t].op \in {"ai_resolve", "ticket_accept", "ticket_reject"}
       /\ (\E k \in Tickets : tickets'[k].status # tickets[k].status)
          => \/ \E t \in Threads : Steps(t) /\ loc[t].op = "ticket_accept"
             \/ \E t \in Threads, k \in Tickets, s \in StatusInputs :
                   TicketStatus(t, k, s)]_vars

\* a change of a ticket with a pending suggestion has been accepted on its
\* own: the ticket is as ai-resolve left it
C27_Witness ==
    \E t \in Threads :
        /\ res[t].status = "applied"
        /\ proposed_changes[res[t].change_id].status = "accepted"
        /\ LET k == proposed_changes[res[t].change_id].ticket_id
           IN  /\ tickets[k].ai_suggestion_status = "pending"
               /\ tickets[k].status = "open"

\* C28: the resolved timestamp of a proposed change is null exactly while
\* the change is pending; it is set in the step that takes the change from
\* pending to accepted or rejected and is never set a second time.
C28_ResolvedAtSetOnce ==
    [][\A c \in Rows :
          /\ proposed_changes'[c].resolved_at = 0
                <=> proposed_changes'[c].status = "pending"
          /\ proposed_changes'[c].resolved_at # proposed_changes[c].resolved_at
             => /\ proposed_changes[c].resolved_at = 0
                /\ proposed_changes[c].status = "pending"
                /\ proposed_changes'[c].status \in {"accepted", "rejected"}]_vars

\* C29: the proposed content of a rejected change has never been written to
\* its file, and the proposed content of an accepted change has been.
C29_RejectedNeverWritten ==
    \A c \in Rows :
        LET written == \E w \in writes :
                          w.by = "accept" /\ w.change_id = c /\ w.ok
        IN  /\ proposed_changes[c].status = "rejected" => ~written
            /\ proposed_changes[c].status = "accepted" => written

\* C30: nothing limits the pending changes of one file path: a propose call
\* (on its own or in an ai-resolve loop) whose generation call returns
\* inserts a new pending row for its path whatever rows exist, and leaves
\* the rows that exist as they are.
C30_ProposeAlwaysInserts ==
    [][\A t \in Threads :
          Leaves(t, "p_generate")
          => \/ /\ proposed_changes' = proposed_changes
                /\ IF loc[t].op = "propose"
                   THEN res'[t].status = "error"
                   ELSE loc'[t].created = loc[t].created
             \/ /\ Len(proposed_changes') = Len(proposed_changes) + 1
                /\ SubSeq(proposed_changes', 1, Len(proposed_changes)) = proposed_changes
                /\ proposed_changes'[Len(proposed_changes')].status = "pending"
                /\ proposed_changes'[Len(proposed_changes')].file_path = loc[t].file_path
                /\ proposed_changes'[Len(proposed_changes')].ticket_id = loc[t].ticket_id]_vars

\* two propose calls for a.md that ran at the same time have each created a
\* pending row, next to the pending row that existed for a.md
C30_Witness ==
    /\ Len(proposed_changes) = 3
    /\ \A c \in Rows : /\ proposed_changes[c].file_path = <<"a.md">>
                       /\ proposed_changes[c].status = "pending"
    /\ \A t \in Threads : res[t].status = "proposed"

\* the (path, instruction) pair a line of the form '- <path>: <free text>'
\* stands for
PairOf(line) ==
    CASE line = LineA -> [file_path |-> <<"a.md">>, instruction |-> <<"fix">>]
      [] line = LineIndented ->
             [file_path |-> <<"m.md">>, instruction |-> <<"fix", ":", "now">>]
      [] line = LineUndo -> [file_path |-> <<"a.md">>, instruction |-> <<"undo">>]

RECURSIVE PairsOf(_)
PairsOf(lines) ==
    IF lines = <<>> THEN <<>>
    ELSE IF Head(lines) \in DirectiveLines
    THEN <<PairOf(Head(lines))>> \o PairsOf(Tail(lines))
    ELSE PairsOf(Tail(lines))

\* C21: for an analysis that holds the marker followed by lines of the form
\* '- <path>: <free text>', possibly interleaved with other lines, the
\* extraction yields exactly the pairs of those lines in their order, and
\* for an analysis without the marker it yields the empty list.
C21_ExtractsTheDirectiveLines ==
    [][\A t \in Threads :
          StoresSuggestion(t)
          => /\ \A lines \in BlockLines :
                   loc'[t].ai_response = Render(lines)
                   => loc'[t].queue = PairsOf(lines)
             /\ Marker \notin Elems(loc'[t].ai_response)
                => loc'[t].queue = <<>>]_vars

\* the pairs that are the last ones of their path
RECURSIVE LastWins(_)
LastWins(pairs) ==
    IF pairs = <<>> THEN <<>>
    ELSE IF \E i \in DOMAIN Tail(pairs) : Tail(pairs)[i].file_path = Head(pairs).file_path
    THEN LastWins(Tail(pairs))
    ELSE <<Head(pairs)>> \o LastWins(Tail(pairs))

\* the changes an ai-resolve request has created name different paths
CreatedOncePerPath(created) ==
    \A i, j \in DOMAIN created :
        proposed_changes'[created[i]].file_path = proposed_changes'[created[j]].file_path
        => i = j

\* C22: when the block names a path more than once the later instruction
\* wins: the extraction yields one directive for the path, with the last
\* instruction, and the request creates one ProposedChange for the path.
C22_LaterInstructionWins ==
    [][\A t \in Threads :
          /\ StoresSuggestion(t)
             => \A lines \in BlockLines :
                   loc'[t].ai_response = Render(lines) /\ LineMarker \notin Elems(lines)
                   => /\ Len(loc'[t].queue) = Len(LastWins(PairsOf(lines)))
                      /\ Elems(loc'[t].queue) = Elems(LastWins(PairsOf(lines)))
          /\ Leaves(t, "ar_loop") /\ pc'[t] = "idle"
             => CreatedOncePerPath(res'[t].proposed_changes)]_vars

\* C25: every file a listing returns, for any directory argument, resolves
\* to a location inside the target directory: the files of the response of
\* a listing request, and the files of the recursive listing of the target
\* directory.
C25_ListingsStayInside ==
    /\ \A t \in Threads :
          \A p \in res[t].files : ResolvesInside(JoinTarget(p))
    /\ \A p \in get_all_files_recursive(<<>>) : ResolvesInside(JoinTarget(p))

\* C23: the file selection never raises: for an answer without a
\* bracket-delimited array, for an answer whose array does not parse and
\* for a selection call that fails it returns the empty list, and the
\* request is answered with the refusal for an empty selection.
C23_SelectionReturnsEmpty ==
    /\ \A a \in AnswersNoArray \cup AnswersUnparsable \cup {Raised} :
          identify_relevant_files(a) = <<>>
    /\ \A t \in Threads :
          res[t].status = "error"
          => res[t].error \in {<<"No relevant files found for this task">>,
                               <<"Could not read any of the relevant files">>,
                               <<"APIError">>}

\* a selection that returned the empty list although project files were
\* listed: the request was refused
C23_Witness ==
    \E t \in Threads :
        /\ nreq = MaxRequests
        /\ pc[t] = "idle"
        /\ res[t].error = <<"No relevant files found for this task">>
        /\ get_all_files_recursive(<<>>) # {}

\* the names of the ignore set
IgnoreNames == {"node_modules", "__pycache__", "venv", ".git"}

\* C24: the recursive listing of the target directory returns exactly the
\* files below it that have an allowed extension, no path segment equal to
\* a name of the ignore set and no path segment that starts with a dot.
C24_RecursiveListingIsExact ==
    get_all_files_recursive(<<>>) =
        {RelativePath(f) :
            f \in {g \in FilePaths :
                      /\ fs[g] # NoFile
                      /\ IsPrefix(TARGET_PROJECT_DIR, g)
                      /\ ExtensionAllowed(g)
                      /\ \A n \in DOMAIN RelativePath(g) :
                            /\ RelativePath(g)[n] \notin IgnoreNames
                            /\ ~StartsWithDot(RelativePath(g)[n])}}

\* C31: ai-resolve is not blocked by the state of the ticket's suggestion:
\* a request is refused only for an empty or unreadable selection, and the
\* analysis it gets is stored whatever ai_suggestion_status was (accepted
\* and rejected included): ai_suggestion and ai_files_analyzed are
\* overwritten, ai_suggestion_status is pending again and the status field
\* of the ticket is as before.
C31_ResolveOverwritesAnyStatus ==
    [][\A t \in Threads :
          /\ \A k \in Tickets, f \in RelevantFiles :
                AiResolveBegin(t, k, f)
                => \/ pc'[t] = "ar_generate" /\ loc'[t].ticket_id = k
                   \/ /\ pc'[t] = "idle"
                      /\ res'[t].error \in
                            {<<"No relevant files found for this task">>,
                             <<"Could not read any of the relevant files">>}
          /\ pc[t] = "ar_generate" /\ pc'[t] # "ar_generate"
             => \/ /\ pc'[t] = "idle"
                   /\ res'[t].status = "error"
                   /\ res'[t].error = <<"APIError">>
                \/ /\ pc'[t] = "ar_loop"
                   /\ tickets'[loc[t].ticket_id] =
                         [status |-> tickets[loc[t].ticket_id].status,
                          ai_suggestion |-> loc'[t].ai_response,
                          ai_suggestion_status |-> "pending",
                          ai_files_analyzed |-> loc[t].analyzed]]_vars

\* an analysis was stored in a ticket whose suggestion had been accepted
C31_Witness ==
    \E k \in Tickets :
        /\ tickets[k].status = "resolved"
        /\ tickets[k].ai_suggestion_status = "pending"
        /\ tickets[k].ai_suggestion \in {TextNone, TextA}
        /\ \E t \in Threads : loc[t].op = "ai_resolve" /\ loc[t].ticket_id = k
                              /\ pc[t] = "ar_loop"

\* the log grows at its end only
ChangesAppended(n) ==
    /\ Len(changes') = Len(changes) + n
    /\ SubSeq(changes', 1, Len(changes)) = changes

C33_RowsComeFromGuardedFiles ==
    [][\A t \in Threads :
          /\ pc[t] # "p_generate" /\ pc'[t] = "p_generate"
             => /\ validate_target_path(JoinTarget(loc'[t].file_path))
                /\ loc'[t].content = fs[Resolve(JoinTarget(loc'[t].file_path))]
                /\ loc'[t].op = "ai_resolve"
                   => loc'[t].file_path \in Elems(loc'[t].analyzed)
          /\ pc[t] = "ar_generate" /\ pc'[t] = "ar_loop"
             => tickets'[loc'[t].ticket_id].ai_files_analyzed = loc'[t].analyzed
          /\ pc[t] = "ar_loop" /\ pc'[t] # "idle" => loc'[t].analyzed = loc[t].analyzed
          /\ pc[t] = "p_generate"
             => IF pc'[t] = "p_generate"
                THEN loc'[t] = loc[t]
                ELSE \/ proposed_changes' = proposed_changes
                     \/ /\ Len(proposed_changes') = Len(proposed_changes) + 1
                        /\ proposed_changes'[Len(proposed_changes')].file_path
                              = loc[t].file_path
                        /\ proposed_changes'[Len(proposed_changes')].original_content
                              = loc[t].content
                        /\ proposed_changes'[Len(proposed_changes')].ticket_id
                              = loc[t].ticket_id
          /\ Len(proposed_changes') # Len(proposed_changes)
             => \E u \in Threads : pc[u] = "p_generate" /\ pc'[u] # "p_generate"]_vars

\* an ai-resolve request that created a change for the analysed a.md and
\* none for m.md, which its analysis names as well but which was not analysed
C33_Witness ==
    \E t \in Threads :
        /\ pc[t] = "idle"
        /\ res[t].status = "success"
        /\ res[t].suggestion = TextAMax
        /\ res[t].files_analyzed = << <<"a.md">> >>
        /\ res[t].proposed_changes = <<Len(proposed_changes)>>
        /\ proposed_changes[Len(proposed_changes)].file_path = <<"a.md">>
        /\ proposed_changes[Len(proposed_changes)].original_content = fs[FileA]

\* how often path occurs in the list of the paths a ticket-level accept
\* applied
TimesApplied(applied, path) ==
    Cardinality({i \in DOMAIN applied : applied[i] = path})

\* the most recently created of the accepted changes of the ticket for path
NewestAccepted(ticket_id, path) ==
    CHOOSE c \in DOMAIN proposed_changes :
        /\ proposed_changes[c].ticket_id = ticket_id
        /\ proposed_changes[c].file_path = path
        /\ proposed_changes[c].status = "accepted"
        /\ \A d \in DOMAIN proposed_changes :
              (/\ proposed_changes[d].ticket_id = ticket_id
               /\ proposed_changes[d].file_path = path
               /\ proposed_changes[d].status = "accepted") => d <= c

\* C34: when a ticket-level accept has applied several pending changes of
\* the ticket for one file path, the file holds, when the request ends, the
\* proposed content of the most recently created of them.
C34_NewestContentRemains ==
    [][\A t \in Threads :
          (pc[t] = "ta_loop" /\ pc'[t] = "idle")
          => \A path \in Elems(loc[t].applied) :
                TimesApplied(loc[t].applied, path) >= 2
                => fs'[Resolve(JoinTarget(path))] =
                      proposed_changes[NewestAccepted(loc[t].ticket_id, path)].proposed_content]_vars

\* the request of thread t is a ticket-level accept or reject
TicketLevel(t) == loc[t].op \in {"ticket_accept", "ticket_reject"}

\* C35: a ticket-level accept or reject on a ticket works through pending
\* changes of that ticket only: each of its steps changes the status of no
\* other row than the change of the ticket it is handling and writes no
\* other file than the file of that change.
C35_OtherRowsUntouched ==
    [][\A t \in Threads :
          /\ \A k \in Tickets :
                TicketAcceptBegin(t, k) \/ TicketRejectBegin(t, k)
                => /\ loc'[t].ticket_id = k
                   /\ \A i \in DOMAIN loc'[t].queue :
                         proposed_changes[loc'[t].queue[i]].ticket_id = k
          /\ (TicketLevel(t) /\ Steps(t))
             => /\ loc'[t].op # "none" =>
                      /\ loc'[t].ticket_id = loc[t].ticket_id
                      /\ \A i \in DOMAIN loc'[t].queue :
                            proposed_changes'[loc'[t].queue[i]].ticket_id = loc[t].ticket_id
                /\ \A c \in Rows :
                      proposed_changes'[c] # proposed_changes[c]
                      => /\ pc[t] \in {"a_update", "r_update"}
                         /\ c = Head(loc[t].queue)
                         /\ proposed_changes[c].ticket_id = loc[t].ticket_id
                /\ Len(proposed_changes') = Len(proposed_changes)
                /\ \A f \in DOMAIN fs :
                      fs'[f] # fs[f]
                      => /\ pc[t] = "a_write"
                         /\ f = RowFile(Head(loc[t].queue))
                         /\ proposed_changes[Head(loc[t].queue)].ticket_id = loc[t].ticket_id]_vars

\* ticket 1 was accepted: its change is applied, the change without a ticket
\* is still pending and its file m.md was not written
C35_Witness ==
    /\ Len(proposed_changes) = 2
    /\ proposed_changes[1].status = "accepted"
    /\ proposed_changes[2].ticket_id = 0
    /\ proposed_changes[2].file_path = <<"m.md">>
    /\ proposed_changes[2].status = "pending"
    /\ fs[FileMax] = InitialFiles[FileMax]
    /\ fs[FileA] = proposed_changes[1].proposed_content
    /\ \A w \in writes : w.change_id = 1
    /\ tickets[1].ai_suggestion_status = "accepted"
    /\ \E t \in Threads :
          /\ pc[t] = "idle" /\ res[t].status = "success"
          /\ res[t].applied_changes = << <<"a.md">> >>

\* C36: a ticket-level accept or reject starts whatever the ticket's
\* ai_suggestion_status is and whether or not the ticket has proposed
\* changes; when it ends it answers success, and the ticket is as before
\* except that accept has set ai_suggestion_status to accepted and status to
\* resolved, and reject has set ai_suggestion_status to rejected.
C36_AcceptRejectUnguarded ==
    [][\A t \in Threads :
          /\ \A k \in Tickets :
                /\ TicketAcceptBegin(t, k) => pc'[t] = "ta_loop" /\ tickets' = tickets
                /\ TicketRejectBegin(t, k) => pc'[t] = "tr_loop" /\ tickets' = tickets
          /\ (pc[t] = "ta_loop" /\ pc'[t] = "idle")
             => /\ res'[t].status = "success"
                /\ tickets' = [tickets EXCEPT
                                  ![loc[t].ticket_id].ai_suggestion_status = "accepted",
                                  ![loc[t].ticket_id].status = "resolved"]
          /\ (pc[t] = "tr_loop" /\ pc'[t] = "idle")
             => /\ res'[t].status = "success"
                /\ tickets' = [tickets EXCEPT
                                  ![loc[t].ticket_id].ai_suggestion_status = "rejected"]
          /\ (TicketLevel(t) /\ Steps(t) /\ pc'[t] # "idle") => tickets' = tickets]_vars

\* ticket 2 was never analysed and has no proposed change; after two
\* ticket-level requests it is accepted and resolved
C36_Witness ==
    /\ \A c \in Rows : proposed_changes[c].ticket_id # 2
    /\ tickets[2] = [NewTicket EXCEPT !.ai_suggestion_status = "accepted",
                                      !.status = "resolved"]
    /\ nreq = 2
    /\ \E t \in Threads : pc[t] = "idle" /\ res[t].status = "success"
    /\ changes = <<>> /\ writes = {}

\* the history is a sequence of user messages each followed by its reply
Alternates(history) ==
    /\ Len(history) % 2 = 0
    /\ \A i \in DOMAIN history :
          history[i] = (IF i % 2 = 1 THEN "user" ELSE "assistant")

\* C37: whenever no request is being handled, the conversation history of
\* the agent alternates user and assistant messages, starting with a user
\* message and ending with the reply to the last user message.
C37_HistoryAlternates ==
    (\A t \in Threads : pc[t] = "idle") => Alternates(conversation_history)

====
